---------------------------- MODULE Spec2Model ----------------------------
(***************************************************************************)
(* Model of the Solstis TCP/IP command client (solstis_core.py,            *)
(* solstis_constants.py): the dispatch table, the transmission-id counter, *)
(* the verification of a reply against the request and the classification *)
(* of its status through the status catalog.                               *)
(*                                                                         *)
(* Values.  A JSON status value is represented by its JSON literal: the    *)
(* integer 0 is "0", the string ok is "\"ok\"", the list [0] is "[0]".     *)
(* The other fields of a reply's parameters (current_wavelength, ...) are  *)
(* never read by the client and are not represented.                       *)
(***************************************************************************)
EXTENDS Integers, Sequences, FiniteSets, TLC

\* Bounds of the model.
MaxCalls == 2          \* command() invocations explored by a sequential caller
MaxConcCalls == 3      \* allocations explored with two concurrent callers

\* solstis_core.py:1370  max_transmission_id = 2**30 - 1
max_transmission_id == 2^30 - 1

(***************************************************************************)
(* solstis_constants.py: the Commands enumeration                          *)
(***************************************************************************)
CommandValues ==
    (1..51) \cup {100, 101}
CommandName(value) ==
    CASE value = 1 -> "SET_WAVE_M"
      [] value = 2 -> "POLL_WAVE_M"
      [] value = 3 -> "LOCK_WAVE_M"
      [] value = 4 -> "STOP_WAVE_M"
      [] value = 5 -> "MOVE_WAVE_T"
      [] value = 6 -> "POLL_MOVE_WAVE_T"
      [] value = 7 -> "STOP_MOVE_WAVE_T"
      [] value = 8 -> "TUNE_ETALON"
      [] value = 9 -> "TUNE_CAVITY"
      [] value = 10 -> "FINE_TUNE_CAVITY"
      [] value = 11 -> "TUNE_RESONATOR"
      [] value = 12 -> "FINE_TUNE_RESONATOR"
      [] value = 13 -> "ETALON_LOCK"
      [] value = 14 -> "ETALON_LOCK_STATUS"
      [] value = 15 -> "REF_CAVITY_LOCK"
      [] value = 16 -> "REF_CAVITY_LOCK_STATUS"
      [] value = 17 -> "ECD_LOCK"
      [] value = 18 -> "ECD_LOCK_STATUS"
      [] value = 19 -> "MONITOR_A"
      [] value = 20 -> "MONITOR_B"
      [] value = 21 -> "SELECT_PROFILE"
      [] value = 22 -> "GET_STATUS"
      [] value = 23 -> "GET_ALIGNMENT_STATUS"
      [] value = 24 -> "BEAM_ALIGNMENT"
      [] value = 25 -> "BEAM_ADJUST_X"
      [] value = 26 -> "BEAM_ADJUST_Y"
      [] value = 27 -> "SCAN_STITCH_INITIALISE"
      [] value = 28 -> "SCAN_STITCH_OP"
      [] value = 29 -> "SCAN_STITCH_STATUS"
      [] value = 30 -> "SCAN_STITCH_OUTPUT"
      [] value = 31 -> "TERASCAN_OUTPUT"
      [] value = 32 -> "FAST_SCAN_START"
      [] value = 33 -> "FAST_SCAN_POLL"
      [] value = 34 -> "FAST_SCAN_STOP"
      [] value = 35 -> "FAST_SCAN_STOP_NR"
      [] value = 36 -> "PBA_REFERENCE"
      [] value = 37 -> "PBA_REFERENCE_STATUS"
      [] value = 38 -> "GET_WAVELENGTH_RANGE"
      [] value = 39 -> "TERASCAN_CONTINUE"
      [] value = 40 -> "READ_ALL_ADC"
      [] value = 41 -> "SET_WAVE_TOLERANCE_M"
      [] value = 42 -> "SET_WAVE_LOCK_TOLERANCE_M"
      [] value = 43 -> "DIGITAL_PID_CONTROL"
      [] value = 44 -> "DIGITAL_PID_POLL"
      [] value = 45 -> "SET_W_METER_CHANNEL"
      [] value = 46 -> "LOCK_WAVE_M_FIXED"
      [] value = 47 -> "GPIO_OUTPUT"
      [] value = 48 -> "DAC_RAMPING"
      [] value = 49 -> "DAC_RAMPING_POLL"
      [] value = 50 -> "DIGITAL_POT_OUTPUT"
      [] value = 51 -> "DAC_OUTPUT"
      [] value = 100 -> "START_LINK"
      [] value = 101 -> "PING"

\* str.lower() on the member names of Commands (the only strings it is applied to).
lower(name) ==
    CASE name = "SET_WAVE_M" -> "set_wave_m"
      [] name = "POLL_WAVE_M" -> "poll_wave_m"
      [] name = "LOCK_WAVE_M" -> "lock_wave_m"
      [] name = "STOP_WAVE_M" -> "stop_wave_m"
      [] name = "MOVE_WAVE_T" -> "move_wave_t"
      [] name = "POLL_MOVE_WAVE_T" -> "poll_move_wave_t"
      [] name = "STOP_MOVE_WAVE_T" -> "stop_move_wave_t"
      [] name = "TUNE_ETALON" -> "tune_etalon"
      [] name = "TUNE_CAVITY" -> "tune_cavity"
      [] name = "FINE_TUNE_CAVITY" -> "fine_tune_cavity"
      [] name = "TUNE_RESONATOR" -> "tune_resonator"
      [] name = "FINE_TUNE_RESONATOR" -> "fine_tune_resonator"
      [] name = "ETALON_LOCK" -> "etalon_lock"
      [] name = "ETALON_LOCK_STATUS" -> "etalon_lock_status"
      [] name = "REF_CAVITY_LOCK" -> "ref_cavity_lock"
      [] name = "REF_CAVITY_LOCK_STATUS" -> "ref_cavity_lock_status"
      [] name = "ECD_LOCK" -> "ecd_lock"
      [] name = "ECD_LOCK_STATUS" -> "ecd_lock_status"
      [] name = "MONITOR_A" -> "monitor_a"
      [] name = "MONITOR_B" -> "monitor_b"
      [] name = "SELECT_PROFILE" -> "select_profile"
      [] name = "GET_STATUS" -> "get_status"
      [] name = "GET_ALIGNMENT_STATUS" -> "get_alignment_status"
      [] name = "BEAM_ALIGNMENT" -> "beam_alignment"
      [] name = "BEAM_ADJUST_X" -> "beam_adjust_x"
      [] name = "BEAM_ADJUST_Y" -> "beam_adjust_y"
      [] name = "SCAN_STITCH_INITIALISE" -> "scan_stitch_initialise"
      [] name = "SCAN_STITCH_OP" -> "scan_stitch_op"
      [] name = "SCAN_STITCH_STATUS" -> "scan_stitch_status"
      [] name = "SCAN_STITCH_OUTPUT" -> "scan_stitch_output"
      [] name = "TERASCAN_OUTPUT" -> "terascan_output"
      [] name = "FAST_SCAN_START" -> "fast_scan_start"
      [] name = "FAST_SCAN_POLL" -> "fast_scan_poll"
      [] name = "FAST_SCAN_STOP" -> "fast_scan_stop"
      [] name = "FAST_SCAN_STOP_NR" -> "fast_scan_stop_nr"
      [] name = "PBA_REFERENCE" -> "pba_reference"
      [] name = "PBA_REFERENCE_STATUS" -> "pba_reference_status"
      [] name = "GET_WAVELENGTH_RANGE" -> "get_wavelength_range"
      [] name = "TERASCAN_CONTINUE" -> "terascan_continue"
      [] name = "READ_ALL_ADC" -> "read_all_adc"
      [] name = "SET_WAVE_TOLERANCE_M" -> "set_wave_tolerance_m"
      [] name = "SET_WAVE_LOCK_TOLERANCE_M" -> "set_wave_lock_tolerance_m"
      [] name = "DIGITAL_PID_CONTROL" -> "digital_pid_control"
      [] name = "DIGITAL_PID_POLL" -> "digital_pid_poll"
      [] name = "SET_W_METER_CHANNEL" -> "set_w_meter_channel"
      [] name = "LOCK_WAVE_M_FIXED" -> "lock_wave_m_fixed"
      [] name = "GPIO_OUTPUT" -> "gpio_output"
      [] name = "DAC_RAMPING" -> "dac_ramping"
      [] name = "DAC_RAMPING_POLL" -> "dac_ramping_poll"
      [] name = "DIGITAL_POT_OUTPUT" -> "digital_pot_output"
      [] name = "DAC_OUTPUT" -> "dac_output"
      [] name = "START_LINK" -> "start_link"
      [] name = "PING" -> "ping"

Commands == CommandValues

\* Commands.command_op: self.name.lower()
command_op(value) == lower(CommandName(value))

\* Commands.command_op_reply: self.name.lower() + "_reply"
command_op_reply(value) == lower(CommandName(value)) \o "_reply"

\* Commands.has_command_op_reply
has_command_op_reply(op) == \E member \in Commands : op = command_op_reply(member)

\* Commands.get_value_from_op_reply: the value of the first member whose reply
\* op matches, None (here 0, which is no member's value) when there is none.
get_value_from_op_reply(op) ==
    IF \E member \in Commands : command_op_reply(member) = op
    THEN CHOOSE member \in Commands : command_op_reply(member) = op
    ELSE 0

(***************************************************************************)
(* solstis_constants.py: status_messages_severity, the status catalog.     *)
(* Each entry maps a status literal to <<message, severity>>.              *)
(***************************************************************************)
\* Faulty variant: the only status of stop_move_wave_t_reply is given severity 2.
status_messages_severity_no_success(op_index) ==
    CASE op_index = 1 ->
           ("0" :> <<"command successful", 0>>
            @@ "1" :> <<"no link to wavelength meter or no meter configured", 2>>
            @@ "2" :> <<"Wavelength out of range", 2>>)
      [] op_index = 2 ->
           ("0" :> <<"tuning software not active", 2>>
            @@ "1" :> <<"No link to wavelength meter or no meter configured.", 2>>
            @@ "2" :> <<"Tuning in progress.", 1>>
            @@ "3" :> <<"pre V60: wavelength lock is on, post V60: wavelength lock being maintained", 0>>)
      [] op_index = 3 ->
           ("0" :> <<"operation successful", 0>>
            @@ "1" :> <<"No link to wavelength meter or no meter configured", 2>>)
      [] op_index = 4 ->
           ("0" :> <<"operation successful", 0>>
            @@ "1" :> <<"No link to wavelength meter", 2>>)
      [] op_index = 5 ->
           ("0" :> <<"operation successful", 0>>
            @@ "1" :> <<"command failed", 2>>
            @@ "2" :> <<"wavelength out of range", 2>>)
      [] op_index = 6 ->
           ("0" :> <<"tuning completed", 0>>
            @@ "1" :> <<"tuning in progress", 1>>
            @@ "2" :> <<"tuning operation failed", 2>>)
      [] op_index = 7 ->
           ("0" :> <<"operation completed", 2>>)
      [] op_index = 8 ->
           ("0" :> <<"operation completed", 0>>
            @@ "1" :> <<"setting out of range", 2>>
            @@ "2" :> <<"command failed.", 2>>)
      [] op_index = 9 ->
           ("0" :> <<"operation completed", 0>>
            @@ "1" :> <<"setting out of range", 2>>
            @@ "2" :> <<"command failed.", 2>>)
      [] op_index = 10 ->
           ("0" :> <<"operation completed", 0>>
            @@ "1" :> <<"setting out of range", 2>>
            @@ "2" :> <<"command failed.", 2>>)
      [] op_index = 11 ->
           ("0" :> <<"operation completed", 0>>
            @@ "1" :> <<"setting out of range", 2>>
            @@ "2" :> <<"command failed.", 2>>)
      [] op_index = 12 ->
           ("0" :> <<"operation completed", 0>>
            @@ "1" :> <<"setting out of range", 2>>
            @@ "2" :> <<"command failed.", 2>>)
      [] op_index = 13 ->
           ("0" :> <<"operation completed", 0>>
            @@ "1" :> <<"operation failed", 2>>)
      [] op_index = 14 ->
           ("0" :> <<"operation completed", 0>>
            @@ "1" :> <<"command failed", 2>>)
      [] op_index = 15 ->
           ("0" :> <<"operation completed", 0>>
            @@ "1" :> <<"operation failed", 2>>)
      [] op_index = 16 ->
           ("0" :> <<"operation completed", 0>>
            @@ "1" :> <<"command failed", 2>>)
      [] op_index = 17 ->
           ("0" :> <<"operation completed", 0>>
            @@ "1" :> <<"operation failed", 2>>
            @@ "2" :> <<"ecd not fitted", 2>>)
      [] op_index = 18 ->
           ("0" :> <<"operation completed", 0>>
            @@ "1" :> <<"command failed", 2>>)
      [] op_index = 19 ->
           ("0" :> <<"operation completed", 0>>
            @@ "1" :> <<"operation failed", 2>>)
      [] op_index = 20 ->
           ("0" :> <<"operation completed", 0>>
            @@ "1" :> <<"operation failed", 2>>)
      [] op_index = 21 ->
           ("0" :> <<"operation completed", 0>>
            @@ "1" :> <<"operation failed", 2>>)
      [] op_index = 22 ->
           ("0" :> <<"operation completed", 0>>
            @@ "1" :> <<"operation failed", 2>>)
      [] op_index = 23 ->
           ("0" :> <<"No message", 0>>)
      [] op_index = 24 ->
           ("0" :> <<"Operation completed", 0>>
            @@ "1" :> <<"Operation failed, not fitted", 2>>)
      [] op_index = 25 ->
           ("0" :> <<"No message", 0>>)
      [] op_index = 26 ->
           ("0" :> <<"Operation completed", 0>>
            @@ "1" :> <<"Operation failed, not fitted", 2>>
            @@ "2" :> <<"operation failed, value OOR", 2>>
            @@ "3" :> <<"operation failed, not in manual mode", 2>>)
      [] op_index = 27 ->
           ("0" :> <<"operation completed", 0>>
            @@ "1" :> <<"start out of range", 2>>
            @@ "2" :> <<"stop out of range", 2>>
            @@ "3" :> <<"scan out of range", 2>>
            @@ "4" :> <<"TeraScan not available", 2>>)
      [] op_index = 28 ->
           ("0" :> <<"operation completed", 0>>
            @@ "1" :> <<"operation failed", 2>>
            @@ "2" :> <<"TeraScan not available", 2>>)
      [] op_index = 29 ->
           ("0" :> <<"not active", 0>>
            @@ "1" :> <<"in progress", 1>>
            @@ "2" :> <<"TeraScan not available", 2>>)
      [] op_index = 30 ->
           ("0" :> <<"operation completed", 0>>
            @@ "1" :> <<"operation failed", 2>>
            @@ "2" :> <<"Unused", 0>>
            @@ "3" :> <<"TeraScan not available", 2>>)
      [] op_index = 31 ->
           ("0" :> <<"operation completed", 0>>
            @@ "1" :> <<"operation failed", 2>>
            @@ "2" :> <<"delay period out of range", 2>>
            @@ "3" :> <<"update step out of range", 2>>
            @@ "4" :> <<"TeraScan not available", 2>>)
      [] op_index = 32 ->
           ("0" :> <<"successful, scan in progress", 0>>
            @@ "1" :> <<"failed, scan width too great for current tuning position", 2>>
            @@ "2" :> <<"failed, reference cavity not fitted", 2>>
            @@ "3" :> <<"failed, ERC not fitted", 2>>
            @@ "4" :> <<"Invalid scan type", 2>>
            @@ "5" :> <<"Time > 10000 seconds", 2>>)
      [] op_index = 33 ->
           ("0" :> <<"scan not in progress", 0>>
            @@ "1" :> <<"scan in progress", 1>>
            @@ "2" :> <<"reference cavity not fitted", 2>>
            @@ "3" :> <<"ERC not fitted", 2>>
            @@ "4" :> <<"Invalid scan type", 2>>)
      [] op_index = 34 ->
           ("0" :> <<"operation completed", 0>>
            @@ "1" :> <<"operation failed", 2>>
            @@ "2" :> <<"reference cavity not fitted", 2>>
            @@ "3" :> <<"ERC not fitted", 2>>
            @@ "4" :> <<"Invalid scan type", 2>>)
      [] op_index = 35 ->
           ("0" :> <<"operation completed", 0>>
            @@ "1" :> <<"operation failed", 2>>
            @@ "2" :> <<"reference cavity not fitted", 2>>
            @@ "3" :> <<"unused", 0>>
            @@ "4" :> <<"Invalid scan type", 2>>)
      [] op_index = 36 ->
           ("0" :> <<"operation completed", 0>>
            @@ "1" :> <<"operation failed, not fitted", 2>>)
      [] op_index = 37 ->
           ("\"not_fitted\"" :> <<"Beam alignment is not fitted to this system.", 2>>
            @@ "\"off\"" :> <<"PBA reference is not running.", 0>>
            @@ "\"tuning\"" :> <<"The system is tuning to the reference wavelength.", 1>>
            @@ "\"optimising\"" :> <<"The system is optimising the PBA.", 1>>)
      [] op_index = 38 ->
           ("0" :> <<"No message", 0>>)
      [] op_index = 39 ->
           ("0" :> <<"operation completed", 0>>
            @@ "1" :> <<"operation failed, TeraScan was not paused", 2>>
            @@ "2" :> <<"TeraScan not available", 2>>)
      [] op_index = 40 ->
           ("0" :> <<"operation completed", 0>>
            @@ "1" :> <<"operation failed", 2>>)
      [] op_index = 41 ->
           ("0" :> <<"operation successful", 0>>
            @@ "1" :> <<"No link to wavelength meter or meter not configured", 2>>
            @@ "2" :> <<"Tolerance value out of range", 2>>)
      [] op_index = 42 ->
           ("0" :> <<"operation successful", 0>>
            @@ "1" :> <<"No link to wavelength meter or meter not configured", 2>>
            @@ "2" :> <<"Tolerance value out of range", 2>>)
      [] op_index = 43 ->
           ("0" :> <<"operation successful", 0>>
            @@ "1" :> <<"command failed", 2>>)
      [] op_index = 44 ->
           ("0" :> <<"operation successful", 0>>
            @@ "1" :> <<"command failed", 2>>)
      [] op_index = 45 ->
           ("0" :> <<"operation successful", 0>>
            @@ "1" :> <<"command failed", 2>>
            @@ "2" :> <<"channel out of range", 2>>)
      [] op_index = 46 ->
           ("0" :> <<"operation successful", 0>>
            @@ "1" :> <<"No link to wavelength meter or no meter configured", 2>>)
      [] op_index = 47 ->
           ("0" :> <<"operation successful", 0>>
            @@ "1" :> <<"operation failed", 2>>)
      [] op_index = 48 ->
           ("0" :> <<"operation successful", 0>>
            @@ "1" :> <<"operation failed", 2>>)
      [] op_index = 49 ->
           ("0" :> <<"operation successful", 0>>
            @@ "1" :> <<"operation failed", 2>>)
      [] op_index = 50 ->
           ("0" :> <<"operation successful", 0>>
            @@ "1" :> <<"operation failed", 2>>)
      [] op_index = 51 ->
           ("0" :> <<"operation successful", 0>>
            @@ "1" :> <<"operation failed", 2>>
            @@ "2" :> <<"output value out of range", 2>>)
      [] op_index = 100 ->
           ("\"ok\"" :> <<"operation successful", 0>>
            @@ "\"failed\"" :> <<"failed to start link", 2>>)
      [] op_index = 101 ->
           ("0" :> <<"No message", 0>>)

status_messages_severity(op_index) ==
    CASE op_index = 1 ->
           ("0" :> <<"command successful", 0>>
            @@ "1" :> <<"no link to wavelength meter or no meter configured", 2>>
            @@ "2" :> <<"Wavelength out of range", 2>>)
      [] op_index = 2 ->
           ("0" :> <<"tuning software not active", 2>>
            @@ "1" :> <<"No link to wavelength meter or no meter configured.", 2>>
            @@ "2" :> <<"Tuning in progress.", 1>>
            @@ "3" :> <<"pre V60: wavelength lock is on, post V60: wavelength lock being maintained", 0>>)
      [] op_index = 3 ->
           ("0" :> <<"operation successful", 0>>
            @@ "1" :> <<"No link to wavelength meter or no meter configured", 2>>)
      [] op_index = 4 ->
           ("0" :> <<"operation successful", 0>>
            @@ "1" :> <<"No link to wavelength meter", 2>>)
      [] op_index = 5 ->
           ("0" :> <<"operation successful", 0>>
            @@ "1" :> <<"command failed", 2>>
            @@ "2" :> <<"wavelength out of range", 2>>)
      [] op_index = 6 ->
           ("0" :> <<"tuning completed", 0>>
            @@ "1" :> <<"tuning in progress", 1>>
            @@ "2" :> <<"tuning operation failed", 2>>)
      [] op_index = 7 ->
           ("0" :> <<"operation completed", 0>>)
      [] op_index = 8 ->
           ("0" :> <<"operation completed", 0>>
            @@ "1" :> <<"setting out of range", 2>>
            @@ "2" :> <<"command failed.", 2>>)
      [] op_index = 9 ->
           ("0" :> <<"operation completed", 0>>
            @@ "1" :> <<"setting out of range", 2>>
            @@ "2" :> <<"command failed.", 2>>)
      [] op_index = 10 ->
           ("0" :> <<"operation completed", 0>>
            @@ "1" :> <<"setting out of range", 2>>
            @@ "2" :> <<"command failed.", 2>>)
      [] op_index = 11 ->
           ("0" :> <<"operation completed", 0>>
            @@ "1" :> <<"setting out of range", 2>>
            @@ "2" :> <<"command failed.", 2>>)
      [] op_index = 12 ->
           ("0" :> <<"operation completed", 0>>
            @@ "1" :> <<"setting out of range", 2>>
            @@ "2" :> <<"command failed.", 2>>)
      [] op_index = 13 ->
           ("0" :> <<"operation completed", 0>>
            @@ "1" :> <<"operation failed", 2>>)
      [] op_index = 14 ->
           ("0" :> <<"operation completed", 0>>
            @@ "1" :> <<"command failed", 2>>)
      [] op_index = 15 ->
           ("0" :> <<"operation completed", 0>>
            @@ "1" :> <<"operation failed", 2>>)
      [] op_index = 16 ->
           ("0" :> <<"operation completed", 0>>
            @@ "1" :> <<"command failed", 2>>)
      [] op_index = 17 ->
           ("0" :> <<"operation completed", 0>>
            @@ "1" :> <<"operation failed", 2>>
            @@ "2" :> <<"ecd not fitted", 2>>)
      [] op_index = 18 ->
           ("0" :> <<"operation completed", 0>>
            @@ "1" :> <<"command failed", 2>>)
      [] op_index = 19 ->
           ("0" :> <<"operation completed", 0>>
            @@ "1" :> <<"operation failed", 2>>)
      [] op_index = 20 ->
           ("0" :> <<"operation completed", 0>>
            @@ "1" :> <<"operation failed", 2>>)
      [] op_index = 21 ->
           ("0" :> <<"operation completed", 0>>
            @@ "1" :> <<"operation failed", 2>>)
      [] op_index = 22 ->
           ("0" :> <<"operation completed", 0>>
            @@ "1" :> <<"operation failed", 2>>)
      [] op_index = 23 ->
           ("0" :> <<"No message", 0>>)
      [] op_index = 24 ->
           ("0" :> <<"Operation completed", 0>>
            @@ "1" :> <<"Operation failed, not fitted", 2>>)
      [] op_index = 25 ->
           ("0" :> <<"No message", 0>>)
      [] op_index = 26 ->
           ("0" :> <<"Operation completed", 0>>
            @@ "1" :> <<"Operation failed, not fitted", 2>>
            @@ "2" :> <<"operation failed, value OOR", 2>>
            @@ "3" :> <<"operation failed, not in manual mode", 2>>)
      [] op_index = 27 ->
           ("0" :> <<"operation completed", 0>>
            @@ "1" :> <<"start out of range", 2>>
            @@ "2" :> <<"stop out of range", 2>>
            @@ "3" :> <<"scan out of range", 2>>
            @@ "4" :> <<"TeraScan not available", 2>>)
      [] op_index = 28 ->
           ("0" :> <<"operation completed", 0>>
            @@ "1" :> <<"operation failed", 2>>
            @@ "2" :> <<"TeraScan not available", 2>>)
      [] op_index = 29 ->
           ("0" :> <<"not active", 0>>
            @@ "1" :> <<"in progress", 1>>
            @@ "2" :> <<"TeraScan not available", 2>>)
      [] op_index = 30 ->
           ("0" :> <<"operation completed", 0>>
            @@ "1" :> <<"operation failed", 2>>
            @@ "2" :> <<"Unused", 0>>
            @@ "3" :> <<"TeraScan not available", 2>>)
      [] op_index = 31 ->
           ("0" :> <<"operation completed", 0>>
            @@ "1" :> <<"operation failed", 2>>
            @@ "2" :> <<"delay period out of range", 2>>
            @@ "3" :> <<"update step out of range", 2>>
            @@ "4" :> <<"TeraScan not available", 2>>)
      [] op_index = 32 ->
           ("0" :> <<"successful, scan in progress", 0>>
            @@ "1" :> <<"failed, scan width too great for current tuning position", 2>>
            @@ "2" :> <<"failed, reference cavity not fitted", 2>>
            @@ "3" :> <<"failed, ERC not fitted", 2>>
            @@ "4" :> <<"Invalid scan type", 2>>
            @@ "5" :> <<"Time > 10000 seconds", 2>>)
      [] op_index = 33 ->
           ("0" :> <<"scan not in progress", 0>>
            @@ "1" :> <<"scan in progress", 1>>
            @@ "2" :> <<"reference cavity not fitted", 2>>
            @@ "3" :> <<"ERC not fitted", 2>>
            @@ "4" :> <<"Invalid scan type", 2>>)
      [] op_index = 34 ->
           ("0" :> <<"operation completed", 0>>
            @@ "1" :> <<"operation failed", 2>>
            @@ "2" :> <<"reference cavity not fitted", 2>>
            @@ "3" :> <<"ERC not fitted", 2>>
            @@ "4" :> <<"Invalid scan type", 2>>)
      [] op_index = 35 ->
           ("0" :> <<"operation completed", 0>>
            @@ "1" :> <<"operation failed", 2>>
            @@ "2" :> <<"reference cavity not fitted", 2>>
            @@ "3" :> <<"unused", 0>>
            @@ "4" :> <<"Invalid scan type", 2>>)
      [] op_index = 36 ->
           ("0" :> <<"operation completed", 0>>
            @@ "1" :> <<"operation failed, not fitted", 2>>)
      [] op_index = 37 ->
           ("\"not_fitted\"" :> <<"Beam alignment is not fitted to this system.", 2>>
            @@ "\"off\"" :> <<"PBA reference is not running.", 0>>
            @@ "\"tuning\"" :> <<"The system is tuning to the reference wavelength.", 1>>
            @@ "\"optimising\"" :> <<"The system is optimising the PBA.", 1>>)
      [] op_index = 38 ->
           ("0" :> <<"No message", 0>>)
      [] op_index = 39 ->
           ("0" :> <<"operation completed", 0>>
            @@ "1" :> <<"operation failed, TeraScan was not paused", 2>>
            @@ "2" :> <<"TeraScan not available", 2>>)
      [] op_index = 40 ->
           ("0" :> <<"operation completed", 0>>
            @@ "1" :> <<"operation failed", 2>>)
      [] op_index = 41 ->
           ("0" :> <<"operation successful", 0>>
            @@ "1" :> <<"No link to wavelength meter or meter not configured", 2>>
            @@ "2" :> <<"Tolerance value out of range", 2>>)
      [] op_index = 42 ->
           ("0" :> <<"operation successful", 0>>
            @@ "1" :> <<"No link to wavelength meter or meter not configured", 2>>
            @@ "2" :> <<"Tolerance value out of range", 2>>)
      [] op_index = 43 ->
           ("0" :> <<"operation successful", 0>>
            @@ "1" :> <<"command failed", 2>>)
      [] op_index = 44 ->
           ("0" :> <<"operation successful", 0>>
            @@ "1" :> <<"command failed", 2>>)
      [] op_index = 45 ->
           ("0" :> <<"operation successful", 0>>
            @@ "1" :> <<"command failed", 2>>
            @@ "2" :> <<"channel out of range", 2>>)
      [] op_index = 46 ->
           ("0" :> <<"operation successful", 0>>
            @@ "1" :> <<"No link to wavelength meter or no meter configured", 2>>)
      [] op_index = 47 ->
           ("0" :> <<"operation successful", 0>>
            @@ "1" :> <<"operation failed", 2>>)
      [] op_index = 48 ->
           ("0" :> <<"operation successful", 0>>
            @@ "1" :> <<"operation failed", 2>>)
      [] op_index = 49 ->
           ("0" :> <<"operation successful", 0>>
            @@ "1" :> <<"operation failed", 2>>)
      [] op_index = 50 ->
           ("0" :> <<"operation successful", 0>>
            @@ "1" :> <<"operation failed", 2>>)
      [] op_index = 51 ->
           ("0" :> <<"operation successful", 0>>
            @@ "1" :> <<"operation failed", 2>>
            @@ "2" :> <<"output value out of range", 2>>)
      [] op_index = 100 ->
           ("\"ok\"" :> <<"operation successful", 0>>
            @@ "\"failed\"" :> <<"failed to start link", 2>>)
      [] op_index = 101 ->
           ("0" :> <<"No message", 0>>)

\* Faulty variant: the catalog has no entry for ping.
CatalogKeys_incomplete == (1..51) \cup {100}

CatalogKeys == (1..51) \cup {100, 101}

(***************************************************************************)
(* solstis_core.py: the dispatch table _command and, for each handler, the *)
(* op it sends and the reply op it passes to _verify_messsage.             *)
(***************************************************************************)
\* Faulty variant: the last numbered command is missing from the table.
CommandIds_incomplete == (1..50) \cup {100, 101}

CommandIds == (1..51) \cup {100, 101}

command_dispatch(command_id) ==
    CASE command_id = 1 -> "_set_wave_m"
      [] command_id = 2 -> "_poll_wave_m"
      [] command_id = 3 -> "_lock_wave_m"
      [] command_id = 4 -> "_stop_wave_m"
      [] command_id = 5 -> "_move_wave_t"
      [] command_id = 6 -> "_poll_move_wave_t"
      [] command_id = 7 -> "_stop_move_wave_t"
      [] command_id = 8 -> "_tune_etalon"
      [] command_id = 9 -> "_tune_cavity"
      [] command_id = 10 -> "_fine_tune_cavity"
      [] command_id = 11 -> "_tune_resonator"
      [] command_id = 12 -> "_fine_tune_resonator"
      [] command_id = 13 -> "_etalon_lock"
      [] command_id = 14 -> "_etalon_lock_status"
      [] command_id = 15 -> "_cavity_lock"
      [] command_id = 16 -> "_cavity_lock_status"
      [] command_id = 17 -> "_ecd_lock"
      [] command_id = 18 -> "_ecd_lock_status"
      [] command_id = 19 -> "_monitor_a"
      [] command_id = 20 -> "_monitor_b"
      [] command_id = 21 -> "_select_profile"
      [] command_id = 22 -> "_get_status"
      [] command_id = 23 -> "_get_alignment_status"
      [] command_id = 24 -> "_beam_alignment"
      [] command_id = 25 -> "_beam_adjust_x"
      [] command_id = 26 -> "_beam_adjust_y"
      [] command_id = 27 -> "_scan_stitch_initialise"
      [] command_id = 28 -> "_scan_stitch_op"
      [] command_id = 29 -> "_scan_stitch_status"
      [] command_id = 30 -> "_scan_stitch_output"
      [] command_id = 31 -> "_terascan_output"
      [] command_id = 32 -> "_fast_scan_start"
      [] command_id = 33 -> "_fast_scan_poll"
      [] command_id = 34 -> "_fast_scan_stop"
      [] command_id = 35 -> "_fast_scan_stop_nr"
      [] command_id = 36 -> "_pba_reference"
      [] command_id = 37 -> "_pba_reference_status"
      [] command_id = 38 -> "_get_wavelength_range"
      [] command_id = 39 -> "_terascan_continue"
      [] command_id = 40 -> "_read_all_adc"
      [] command_id = 41 -> "_set_wave_tolerance_m"
      [] command_id = 42 -> "_set_wave_lock_tolerance_m"
      [] command_id = 43 -> "_digital_pid_control"
      [] command_id = 44 -> "_digital_pid_poll"
      [] command_id = 45 -> "_set_w_meter_channel"
      [] command_id = 46 -> "_lock_wave_m_fixed"
      [] command_id = 47 -> "_gpio_output"
      [] command_id = 48 -> "_dac_ramping"
      [] command_id = 49 -> "_dac_ramping_poll"
      [] command_id = 50 -> "_digital_pot_output"
      [] command_id = 51 -> "_dac_output"
      [] command_id = 100 -> "_start_link"
      [] command_id = 101 -> "_ping"

\* The op each handler passes to send_command.
handler_op(handler) ==
    CASE handler = "_set_wave_m" -> "set_wave_m"
      [] handler = "_poll_wave_m" -> "poll_wave_m"
      [] handler = "_lock_wave_m" -> "lock_wave_m"
      [] handler = "_stop_wave_m" -> "stop_wave_m"
      [] handler = "_move_wave_t" -> "move_wave_t"
      [] handler = "_poll_move_wave_t" -> "poll_move_wave_t"
      [] handler = "_stop_move_wave_t" -> "stop_move_wave_t"
      [] handler = "_tune_etalon" -> "tune_etalon"
      [] handler = "_tune_cavity" -> "tune_cavity"
      [] handler = "_fine_tune_cavity" -> "fine_tune_cavity"
      [] handler = "_tune_resonator" -> "tune_resonator"
      [] handler = "_fine_tune_resonator" -> "fine_tune_resonator"
      [] handler = "_etalon_lock" -> "etalon_lock"
      [] handler = "_etalon_lock_status" -> "etalon_lock_status"
      [] handler = "_cavity_lock" -> "cavity_lock"
      [] handler = "_cavity_lock_status" -> "cavity_lock_status"
      [] handler = "_ecd_lock" -> "ecd_lock"
      [] handler = "_ecd_lock_status" -> "ecd_lock_status"
      [] handler = "_monitor_a" -> "monitor_a"
      [] handler = "_monitor_b" -> "monitor_b"
      [] handler = "_select_profile" -> "select_profile"
      [] handler = "_get_status" -> "get_status"
      [] handler = "_get_alignment_status" -> "get_alignment_status"
      [] handler = "_beam_alignment" -> "beam_alignment"
      [] handler = "_beam_adjust_x" -> "beam_adjust_x"
      [] handler = "_beam_adjust_y" -> "beam_adjust_y"
      [] handler = "_scan_stitch_initialise" -> "scan_stitch_initialise"
      [] handler = "_scan_stitch_op" -> "scan_stitch_op"
      [] handler = "_scan_stitch_status" -> "scan_stitch_status"
      [] handler = "_scan_stitch_output" -> "scan_stitch_output"
      [] handler = "_terascan_output" -> "terascan_output"
      [] handler = "_fast_scan_start" -> "fast_scan_start"
      [] handler = "_fast_scan_poll" -> "fast_scan_poll"
      [] handler = "_fast_scan_stop" -> "fast_scan_stop"
      [] handler = "_fast_scan_stop_nr" -> "fast_scan_stop_nr"
      [] handler = "_pba_reference" -> "pba_reference"
      [] handler = "_pba_reference_status" -> "pba_reference_status"
      [] handler = "_get_wavelength_range" -> "get_wavelength_range"
      [] handler = "_terascan_continue" -> "terascan_continue"
      [] handler = "_read_all_adc" -> "read_all_adc"
      [] handler = "_set_wave_tolerance_m" -> "set_wave_tolerance_m"
      [] handler = "_set_wave_lock_tolerance_m" -> "set_wave_lock_tolerance_m"
      [] handler = "_digital_pid_control" -> "digital_pid_control"
      [] handler = "_digital_pid_poll" -> "digital_pid_poll"
      [] handler = "_set_w_meter_channel" -> "set_w_meter_channel"
      [] handler = "_lock_wave_m_fixed" -> "lock_wave_m_fixed"
      [] handler = "_gpio_output" -> "gpio_output"
      [] handler = "_dac_ramping" -> "dac_ramping"
      [] handler = "_dac_ramping_poll" -> "dac_ramping_poll"
      [] handler = "_digital_pot_output" -> "digital_pot_output"
      [] handler = "_dac_output" -> "dac_output"
      [] handler = "_start_link" -> "start_link"
      [] handler = "_ping" -> "ping"

\* The op each handler passes to _verify_messsage.
handler_op_reply(handler) ==
    CASE handler = "_set_wave_m" -> "set_wave_m_reply"
      [] handler = "_poll_wave_m" -> "poll_wave_m_reply"
      [] handler = "_lock_wave_m" -> "lock_wave_m_reply"
      [] handler = "_stop_wave_m" -> "stop_wave_m_reply"
      [] handler = "_move_wave_t" -> "move_wave_t_reply"
      [] handler = "_poll_move_wave_t" -> "poll_move_wave_t_reply"
      [] handler = "_stop_move_wave_t" -> "stop_move_wave_t_reply"
      [] handler = "_tune_etalon" -> "tune_etalon_reply"
      [] handler = "_tune_cavity" -> "tune_cavity_reply"
      [] handler = "_fine_tune_cavity" -> "fine_tune_cavity_reply"
      [] handler = "_tune_resonator" -> "tune_resonator_reply"
      [] handler = "_fine_tune_resonator" -> "fine_tune_resonator_reply"
      [] handler = "_etalon_lock" -> "etalon_lock_reply"
      [] handler = "_etalon_lock_status" -> "etalon_lock_status_reply"
      [] handler = "_cavity_lock" -> "cavity_lock_reply"
      [] handler = "_cavity_lock_status" -> "cavity_lock_status_reply"
      [] handler = "_ecd_lock" -> "ecd_lock_reply"
      [] handler = "_ecd_lock_status" -> "ecd_lock_status_reply"
      [] handler = "_monitor_a" -> "monitor_a_reply"
      [] handler = "_monitor_b" -> "monitor_b_reply"
      [] handler = "_select_profile" -> "select_profile_reply"
      [] handler = "_get_status" -> "get_status_reply"
      [] handler = "_get_alignment_status" -> "get_alignment_status_reply"
      [] handler = "_beam_alignment" -> "beam_alignment_reply"
      [] handler = "_beam_adjust_x" -> "beam_adjust_x_reply"
      [] handler = "_beam_adjust_y" -> "beam_adjust_y_reply"
      [] handler = "_scan_stitch_initialise" -> "scan_stitch_initialise_reply"
      [] handler = "_scan_stitch_op" -> "scan_stitch_op_reply"
      [] handler = "_scan_stitch_status" -> "scan_stitch_status_reply"
      [] handler = "_scan_stitch_output" -> "scan_stitch_output_reply"
      [] handler = "_terascan_output" -> "terascan_output_reply"
      [] handler = "_fast_scan_start" -> "fast_scan_start_reply"
      [] handler = "_fast_scan_poll" -> "fast_scan_poll_reply"
      [] handler = "_fast_scan_stop" -> "fast_scan_stop_reply"
      [] handler = "_fast_scan_stop_nr" -> "fast_scan_stop_nr_reply"
      [] handler = "_pba_reference" -> "pba_reference_reply"
      [] handler = "_pba_reference_status" -> "pba_reference_status_reply"
      [] handler = "_get_wavelength_range" -> "get_wavelength_range_reply"
      [] handler = "_terascan_continue" -> "terascan_continue_reply"
      [] handler = "_read_all_adc" -> "read_all_adc_reply"
      [] handler = "_set_wave_tolerance_m" -> "set_wave_tolerance_m_reply"
      [] handler = "_set_wave_lock_tolerance_m" -> "set_wave_lock_tolerance_m_reply"
      [] handler = "_digital_pid_control" -> "digital_pid_control_reply"
      [] handler = "_digital_pid_poll" -> "digital_pid_poll_reply"
      [] handler = "_set_w_meter_channel" -> "set_w_meter_channel_reply"
      [] handler = "_lock_wave_m_fixed" -> "lock_wave_m_fixed_reply"
      [] handler = "_gpio_output" -> "gpio_output_reply"
      [] handler = "_dac_ramping" -> "dac_ramping_reply"
      [] handler = "_dac_ramping_poll" -> "dac_ramping_poll_reply"
      [] handler = "_digital_pot_output" -> "digital_pot_output_reply"
      [] handler = "_dac_output" -> "dac_output_reply"
      [] handler = "_start_link" -> "start_link_reply"
      [] handler = "_ping" -> "ping_reply"

\* The keyword parameters of each handler without a default.
handler_required(handler) ==
    CASE handler = "_set_wave_m" -> {"wavelength"}
      [] handler = "_poll_wave_m" -> {}
      [] handler = "_lock_wave_m" -> {"operation"}
      [] handler = "_stop_wave_m" -> {}
      [] handler = "_move_wave_t" -> {"wavelength"}
      [] handler = "_poll_move_wave_t" -> {}
      [] handler = "_stop_move_wave_t" -> {}
      [] handler = "_tune_etalon" -> {"setting"}
      [] handler = "_tune_cavity" -> {"setting"}
      [] handler = "_fine_tune_cavity" -> {"setting"}
      [] handler = "_tune_resonator" -> {"setting"}
      [] handler = "_fine_tune_resonator" -> {"setting"}
      [] handler = "_etalon_lock" -> {"operation"}
      [] handler = "_etalon_lock_status" -> {}
      [] handler = "_cavity_lock" -> {"operation"}
      [] handler = "_cavity_lock_status" -> {}
      [] handler = "_ecd_lock" -> {"operation"}
      [] handler = "_ecd_lock_status" -> {}
      [] handler = "_monitor_a" -> {"signal"}
      [] handler = "_monitor_b" -> {"signal"}
      [] handler = "_select_profile" -> {"profile"}
      [] handler = "_get_status" -> {}
      [] handler = "_get_alignment_status" -> {}
      [] handler = "_beam_alignment" -> {"mode"}
      [] handler = "_beam_adjust_x" -> {"x_value"}
      [] handler = "_beam_adjust_y" -> {"y_value"}
      [] handler = "_scan_stitch_initialise" -> {"scan", "start", "stop", "rate", "units"}
      [] handler = "_scan_stitch_op" -> {"scan", "operation"}
      [] handler = "_scan_stitch_status" -> {"scan"}
      [] handler = "_scan_stitch_output" -> {"operation"}
      [] handler = "_terascan_output" -> {"operation", "delay", "update", "pause"}
      [] handler = "_fast_scan_start" -> {"scan", "width", "time"}
      [] handler = "_fast_scan_poll" -> {"scan"}
      [] handler = "_fast_scan_stop" -> {"scan"}
      [] handler = "_fast_scan_stop_nr" -> {"scan"}
      [] handler = "_pba_reference" -> {"operation"}
      [] handler = "_pba_reference_status" -> {}
      [] handler = "_get_wavelength_range" -> {}
      [] handler = "_terascan_continue" -> {}
      [] handler = "_read_all_adc" -> {}
      [] handler = "_set_wave_tolerance_m" -> {"tolerance"}
      [] handler = "_set_wave_lock_tolerance_m" -> {"tolerance"}
      [] handler = "_digital_pid_control" -> {"operation"}
      [] handler = "_digital_pid_poll" -> {}
      [] handler = "_set_w_meter_channel" -> {"channel"}
      [] handler = "_lock_wave_m_fixed" -> {"operation"}
      [] handler = "_gpio_output" -> {"channel", "value"}
      [] handler = "_dac_ramping" -> {"dac_channel", "start_stop", "ramping_mode", "step_mode", "target_output", "ramp_rate", "update_rate", "step_size"}
      [] handler = "_dac_ramping_poll" -> {"dac_channel"}
      [] handler = "_digital_pot_output" -> {"channel", "value"}
      [] handler = "_dac_output" -> {"channel", "output_value"}
      [] handler = "_start_link" -> {"ip_address"}
      [] handler = "_ping" -> {"text_in"}

\* The keyword parameters of each handler with a default.
handler_optional(handler) ==
    CASE handler = "_read_all_adc" -> {"report"}
      [] handler = "_set_w_meter_channel" -> {"recovery"}
      [] handler = "_lock_wave_m_fixed" -> {"lock_wavelength"}
      [] OTHER -> {}

(***************************************************************************)
(* solstis_core.py: the public wrappers, one per command.  A wrapper       *)
(* asserts the ranges of some of its arguments, builds the keyword         *)
(* arguments and calls command().                                          *)
(***************************************************************************)
\* Scan_Type.has_value, Scan_Type_Fast.has_value: the values of the members.
Scan_Type == 1..4

Scan_Type_Fast == 1..12

\* type(operation) == bool: an argument is represented by 1 when its type is
\* bool and by another number when it is not.
IsBool == {1}

wrapper_names ==
    {"start_link", "ping", "set_wave_m", "poll_wave_m",
     "lock_wave_m", "stop_wave_m", "move_wave_t", "poll_move_wave_t",
     "stop_move_wave_t", "tune_etalon", "tune_cavity", "fine_tune_cavity",
     "tune_resonator", "fine_tune_resonator", "etalon_lock", "etalon_lock_status",
     "ref_cavity_lock", "ref_cavity_lock_status", "ecd_lock", "ecd_lock_status",
     "monitor_a", "monitor_b", "select_profile", "get_status",
     "get_alignment_status", "beam_alignment", "beam_adjust_x", "beam_adjust_y",
     "scan_stitch_initialise", "scan_stitch_op", "scan_stitch_status", "scan_stitch_output",
     "terascan_output", "fast_scan_start", "fast_scan_poll", "fast_scan_stop",
     "fast_scan_stop_nr", "pba_reference", "pba_reference_status", "get_wavelength_range",
     "terascan_continue", "read_all_adc", "set_wave_tolerance_m", "set_wave_lock_tolerance_m",
     "digital_pid_control", "digital_pid_poll", "set_w_meter_channel", "lock_wave_m_fixed",
     "gpio_output", "dac_ramping", "dac_ramping_poll", "digital_pot_output",
     "dac_output"}

\* The command id each wrapper passes to command().
wrapper_command(wrapper) ==
    CASE wrapper = "start_link" -> 100
      [] wrapper = "ping" -> 101
      [] wrapper = "set_wave_m" -> 1
      [] wrapper = "poll_wave_m" -> 2
      [] wrapper = "lock_wave_m" -> 3
      [] wrapper = "stop_wave_m" -> 4
      [] wrapper = "move_wave_t" -> 5
      [] wrapper = "poll_move_wave_t" -> 6
      [] wrapper = "stop_move_wave_t" -> 7
      [] wrapper = "tune_etalon" -> 8
      [] wrapper = "tune_cavity" -> 9
      [] wrapper = "fine_tune_cavity" -> 10
      [] wrapper = "tune_resonator" -> 11
      [] wrapper = "fine_tune_resonator" -> 12
      [] wrapper = "etalon_lock" -> 13
      [] wrapper = "etalon_lock_status" -> 14
      [] wrapper = "ref_cavity_lock" -> 15
      [] wrapper = "ref_cavity_lock_status" -> 16
      [] wrapper = "ecd_lock" -> 17
      [] wrapper = "ecd_lock_status" -> 18
      [] wrapper = "monitor_a" -> 19
      [] wrapper = "monitor_b" -> 20
      [] wrapper = "select_profile" -> 21
      [] wrapper = "get_status" -> 22
      [] wrapper = "get_alignment_status" -> 23
      [] wrapper = "beam_alignment" -> 24
      [] wrapper = "beam_adjust_x" -> 25
      [] wrapper = "beam_adjust_y" -> 26
      [] wrapper = "scan_stitch_initialise" -> 27
      [] wrapper = "scan_stitch_op" -> 28
      [] wrapper = "scan_stitch_status" -> 29
      [] wrapper = "scan_stitch_output" -> 30
      [] wrapper = "terascan_output" -> 31
      [] wrapper = "fast_scan_start" -> 32
      [] wrapper = "fast_scan_poll" -> 33
      [] wrapper = "fast_scan_stop" -> 34
      [] wrapper = "fast_scan_stop_nr" -> 35
      [] wrapper = "pba_reference" -> 36
      [] wrapper = "pba_reference_status" -> 37
      [] wrapper = "get_wavelength_range" -> 38
      [] wrapper = "terascan_continue" -> 39
      [] wrapper = "read_all_adc" -> 40
      [] wrapper = "set_wave_tolerance_m" -> 41
      [] wrapper = "set_wave_lock_tolerance_m" -> 42
      [] wrapper = "digital_pid_control" -> 43
      [] wrapper = "digital_pid_poll" -> 44
      [] wrapper = "set_w_meter_channel" -> 45
      [] wrapper = "lock_wave_m_fixed" -> 46
      [] wrapper = "gpio_output" -> 47
      [] wrapper = "dac_ramping" -> 48
      [] wrapper = "dac_ramping_poll" -> 49
      [] wrapper = "digital_pot_output" -> 50
      [] wrapper = "dac_output" -> 51

\* The keyword names each wrapper passes to command().
wrapper_kw(wrapper) ==
    CASE wrapper = "start_link" -> {"ip_address"}
      [] wrapper = "ping" -> {"text_in"}
      [] wrapper = "set_wave_m" -> {"wavelength"}
      [] wrapper = "poll_wave_m" -> {}
      [] wrapper = "lock_wave_m" -> {"operation"}
      [] wrapper = "stop_wave_m" -> {}
      [] wrapper = "move_wave_t" -> {"wavelength"}
      [] wrapper = "poll_move_wave_t" -> {}
      [] wrapper = "stop_move_wave_t" -> {}
      [] wrapper = "tune_etalon" -> {"setting"}
      [] wrapper = "tune_cavity" -> {"setting"}
      [] wrapper = "fine_tune_cavity" -> {"setting"}
      [] wrapper = "tune_resonator" -> {"setting"}
      [] wrapper = "fine_tune_resonator" -> {"setting"}
      [] wrapper = "etalon_lock" -> {"operation"}
      [] wrapper = "etalon_lock_status" -> {}
      [] wrapper = "ref_cavity_lock" -> {"operation"}
      [] wrapper = "ref_cavity_lock_status" -> {}
      [] wrapper = "ecd_lock" -> {"operation"}
      [] wrapper = "ecd_lock_status" -> {}
      [] wrapper = "monitor_a" -> {"signal"}
      [] wrapper = "monitor_b" -> {"signal"}
      [] wrapper = "select_profile" -> {"profile"}
      [] wrapper = "get_status" -> {}
      [] wrapper = "get_alignment_status" -> {}
      [] wrapper = "beam_alignment" -> {"mode"}
      [] wrapper = "beam_adjust_x" -> {"x_value"}
      [] wrapper = "beam_adjust_y" -> {"y_value"}
      [] wrapper = "scan_stitch_initialise" -> {"scan", "start", "stop", "rate", "units"}
      [] wrapper = "scan_stitch_op" -> {"scan", "operation"}
      [] wrapper = "scan_stitch_status" -> {"scan"}
      [] wrapper = "scan_stitch_output" -> {"operation"}
      [] wrapper = "terascan_output" -> {"operation", "delay", "update", "units"}
      [] wrapper = "fast_scan_start" -> {"scan", "width", "time"}
      [] wrapper = "fast_scan_poll" -> {"scan", "width", "time"}
      [] wrapper = "fast_scan_stop" -> {"scan"}
      [] wrapper = "fast_scan_stop_nr" -> {"scan"}
      [] wrapper = "pba_reference" -> {"operation"}
      [] wrapper = "pba_reference_status" -> {}
      [] wrapper = "get_wavelength_range" -> {}
      [] wrapper = "terascan_continue" -> {}
      [] wrapper = "read_all_adc" -> {}
      [] wrapper = "set_wave_tolerance_m" -> {"tolerance"}
      [] wrapper = "set_wave_lock_tolerance_m" -> {"tolerance"}
      [] wrapper = "digital_pid_control" -> {"operation"}
      [] wrapper = "digital_pid_poll" -> {}
      [] wrapper = "set_w_meter_channel" -> {"channel", "recovery"}
      [] wrapper = "lock_wave_m_fixed" -> {"operation"}
      [] wrapper = "gpio_output" -> {"channel", "value"}
      [] wrapper = "dac_ramping" -> {"dac_channel", "start_stop", "ramping_mode", "step_mode", "target_output", "ramp_rate", "update_rate", "step_size"}
      [] wrapper = "dac_ramping_poll" -> {"dac_rampping_channel"}
      [] wrapper = "digital_pot_output" -> {"channel", "value"}
      [] wrapper = "dac_output" -> {"channel", "output_value"}

\* The arguments of each wrapper that have declared bounds, in the order in
\* which the wrapper asserts them: the values allowed, whether the wrapper
\* asserts it, and the message of the assertion.  gpio_output documents
\* channel 0 - 31 and asserts nothing.  (The asserts of
\* scan_stitch_initialise on start and stop follow a statement that always
\* raises, see wrapper_fault.)
wrapper_params(wrapper) ==
    CASE wrapper = "tune_etalon" -> 
           <<[param |-> "setting", allowed |-> 0..100, checked |-> TRUE,
              message |-> "Setting out of range."]>>
      [] wrapper = "tune_cavity" -> 
           <<[param |-> "setting", allowed |-> 0..100, checked |-> TRUE,
              message |-> "Setting out of range."]>>
      [] wrapper = "fine_tune_cavity" -> 
           <<[param |-> "setting", allowed |-> 0..100, checked |-> TRUE,
              message |-> "Setting out of range."]>>
      [] wrapper = "tune_resonator" -> 
           <<[param |-> "setting", allowed |-> 0..100, checked |-> TRUE,
              message |-> "Setting out of range."]>>
      [] wrapper = "fine_tune_resonator" -> 
           <<[param |-> "setting", allowed |-> 0..100, checked |-> TRUE,
              message |-> "Setting out of range."]>>
      [] wrapper = "monitor_a" -> 
           <<[param |-> "signal", allowed |-> 1..16, checked |-> TRUE,
              message |-> "Signal out of range."]>>
      [] wrapper = "monitor_b" -> 
           <<[param |-> "signal", allowed |-> 1..16, checked |-> TRUE,
              message |-> "Signal out of range."]>>
      [] wrapper = "beam_adjust_x" -> 
           <<[param |-> "x_value", allowed |-> 0..100, checked |-> TRUE,
              message |-> "Setting out of range."]>>
      [] wrapper = "beam_adjust_y" -> 
           <<[param |-> "y_value", allowed |-> 0..100, checked |-> TRUE,
              message |-> "Setting out of range."]>>
      [] wrapper = "scan_stitch_initialise" -> 
           <<[param |-> "scan", allowed |-> Scan_Type, checked |-> TRUE,
              message |-> "Scan type not valid."]>>
      [] wrapper = "scan_stitch_op" -> 
           <<[param |-> "scan", allowed |-> Scan_Type, checked |-> TRUE,
              message |-> "Scan type not valid."]>>
      [] wrapper = "scan_stitch_status" -> 
           <<[param |-> "scan", allowed |-> Scan_Type, checked |-> TRUE,
              message |-> "Scan type not valid."]>>
      [] wrapper = "scan_stitch_output" -> 
           <<[param |-> "operation", allowed |-> IsBool, checked |-> TRUE,
              message |-> "Operation not valid."]>>
      [] wrapper = "fast_scan_start" -> 
           <<[param |-> "scan", allowed |-> Scan_Type_Fast, checked |-> TRUE,
              message |-> "Scan type not valid."]>>
      [] wrapper = "fast_scan_poll" -> 
           <<[param |-> "scan", allowed |-> Scan_Type_Fast, checked |-> TRUE,
              message |-> "Scan type not valid."]>>
      [] wrapper = "fast_scan_stop" -> 
           <<[param |-> "scan", allowed |-> Scan_Type_Fast, checked |-> TRUE,
              message |-> "Scan type not valid."]>>
      [] wrapper = "fast_scan_stop_nr" -> 
           <<[param |-> "scan", allowed |-> Scan_Type_Fast, checked |-> TRUE,
              message |-> "Scan type not valid."]>>
      [] wrapper = "pba_reference" -> 
           <<[param |-> "operation", allowed |-> IsBool, checked |-> TRUE,
              message |-> "Operation not valid."]>>
      [] wrapper = "digital_pid_control" -> 
           <<[param |-> "operation", allowed |-> IsBool, checked |-> TRUE,
              message |-> "Operation not valid."]>>
      [] wrapper = "set_w_meter_channel" -> 
           <<[param |-> "channel", allowed |-> 0..8, checked |-> TRUE,
              message |-> "Channel out of range."],
             [param |-> "recovery", allowed |-> 1..3, checked |-> TRUE,
              message |-> "Recovery out of range."]>>
      [] wrapper = "lock_wave_m_fixed" -> 
           <<[param |-> "operation", allowed |-> IsBool, checked |-> TRUE,
              message |-> "Operation not valid."]>>
      [] wrapper = "gpio_output" -> 
           <<[param |-> "channel", allowed |-> 0..31, checked |-> FALSE,
              message |-> ""]>>
      [] wrapper = "dac_ramping" -> 
           <<[param |-> "dac_channel", allowed |-> 0..31, checked |-> TRUE,
              message |-> "DAC channel out of range."],
             [param |-> "start_stop", allowed |-> 1..2, checked |-> TRUE,
              message |-> "Start/stop mode out of range."],
             [param |-> "ramping_mode", allowed |-> 1..4, checked |-> TRUE,
              message |-> "Ramping mode out of range."],
             [param |-> "step_mode", allowed |-> 0..1, checked |-> TRUE,
              message |-> "Step mode out of range."]>>
      [] wrapper = "dac_ramping_poll" -> 
           <<[param |-> "dac_rampping_channel", allowed |-> 0..31, checked |-> TRUE,
              message |-> "DAC channel out of range."]>>
      [] wrapper = "digital_pot_output" -> 
           <<[param |-> "channel", allowed |-> 0..36, checked |-> TRUE,
              message |-> "Channel out of range."],
             [param |-> "value", allowed |-> 0..255, checked |-> TRUE,
              message |-> "Value out of range."]>>
      [] wrapper = "dac_output" -> 
           <<[param |-> "channel", allowed |-> 0..30, checked |-> TRUE,
              message |-> "Channel out of range."]>>
      [] OTHER -> <<>>

\* A statement of the wrapper, after the asserts modelled above, that uses
\* a name that is not defined (unit in scan_stitch_initialise, width in
\* fast_scan_poll) and so raises NameError.
wrapper_fault(wrapper) ==
    CASE wrapper = "scan_stitch_initialise" -> "NameError"
      [] wrapper = "fast_scan_poll" -> "NameError"
      [] OTHER -> ""

(***************************************************************************)
(* State                                                                   *)
(***************************************************************************)
VARIABLES
    connection,               \* self.connection: "None" or "socket"
    transmission_id_counter,  \* self._transmission_id_counter
    response_buffer,          \* self.response_buffer
    pc,                       \* the caller: "idle", or "recv" (blocked in receive_response)
    call,                     \* the command() invocation in progress, or the last one
                              \* since the last connect() or disconnect()
    result,                   \* how the last public call ended
    allocs,                   \* number of _allocate_transmission_id calls since __init__
    calls,                    \* number of calls explored so far
    timed_out,                \* a recv on the current connection has timed out
    late,                     \* replies to timed-out requests, unread in the socket
    wire,                     \* one request: the arguments of send_command, the text
                              \* sent, the object the receiving end decodes
    other,                    \* the attributes of a second SolstisCore instance
    cpc, ctmp, cret,          \* two concurrent callers: position, loaded counter, id returned
    interleaved               \* some allocation started while another was in progress

vars == <<connection, transmission_id_counter, response_buffer, pc, call, result,
          allocs, calls, timed_out, late, wire, other, cpc, ctmp, cret, interleaved>>

Callers == {1, 2}

\* A reply that stands for "no reply".
NoReply == [transmission_id |-> 0, op |-> "", has_parameters |-> FALSE,
            has_status |-> FALSE, status |-> ""]

NoCall == [command_id |-> 0, transmission_id |-> 0, sent |-> FALSE, op |-> "",
           handler |-> "", reply |-> NoReply, wrapper |-> "", args |-> <<>>,
           kwargs |-> {}, kwargs_fit |-> FALSE, counter_before |-> 0, sends |-> 0,
           recvs |-> 0, stale |-> FALSE, after |-> "none", after_failed |-> FALSE,
           response |-> NoReply]

\* Exceptions other than SolstisError have no severity attribute.
NoSeverity == 0 - 1

NoResult == [of |-> "none", kind |-> "none", exc |-> "", message |-> "",
             severity |-> NoSeverity, value |-> NoReply, closed |-> 0]

\* closed: the number of socket.close() calls the public call made.
Returned(of, value) ==
    [of |-> of, kind |-> "return", exc |-> "", message |-> "",
     severity |-> NoSeverity, value |-> value, closed |-> 0]

Raised(of, e) ==
    [of |-> of, kind |-> "raise", exc |-> e.exc, message |-> e.message,
     severity |-> e.severity, value |-> NoReply, closed |-> 0]

Exception(exc, message) == [exc |-> exc, message |-> message, severity |-> NoSeverity]

NoError == [exc |-> "", message |-> "", severity |-> NoSeverity]

\* SolstisError.__init__(self, message, severity=0): stores the message and
\* sets self.severity = 0 whatever severity was passed.
SolstisError(message, severity) ==
    [exc |-> "SolstisError", message |-> message, severity |-> 0]

(***************************************************************************)
(* Transmission ids                                                        *)
(***************************************************************************)
\* Faulty variant: the counter is not advanced.
Increment_missing(counter) == counter

\* self._transmission_id_counter += 1
Increment(counter) == counter + 1

\* Faulty variant: the counter is reset one id early (>= in place of >).
Wrap_early(counter) == IF counter >= max_transmission_id THEN 0 ELSE counter

\* if self._transmission_id_counter > max_transmission_id: counter = 0
Wrap(counter) == IF counter > max_transmission_id THEN 0 ELSE counter

\* Faulty variant: once an id has been given out it is given out again.
allocate_transmission_id_reused(counter) ==
    IF counter = 0 THEN Wrap(Increment(counter)) ELSE counter

\* _allocate_transmission_id, run without interruption: the new counter,
\* which is also the id returned.
allocate_transmission_id(counter) == Wrap(Increment(counter))

(***************************************************************************)
(* Verification and classification of a reply                              *)
(***************************************************************************)
\* A status literal that Python cannot hash (a JSON list): using it as a
\* dictionary key raises TypeError.
Unhashable(status) == status \in {"[0]"}

\* Faulty variant: the transmission id is not compared.
verify_messsage_no_id_check(message, op, transmission_id) ==
    LET msgID == message.transmission_id
        msgOP == message.op
    IN  IF msgOP = "parse_fail"
        THEN SolstisError("Mesage with ID " \o ToString(msgID)
                          \o " failed to parse." \o "\n\n" \o ToString(message), 10)
        ELSE IF msgOP # op
        THEN SolstisError("Message with ID" \o ToString(msgID)
                          \o "with operation command of '" \o msgOP
                          \o "' did not match expected operation command of: "
                          \o op, 0)
        ELSE NoError

\* Faulty variant: the parse_fail sentinel is not recognised.
verify_messsage_no_parse_fail(message, op, transmission_id) ==
    LET msgID == message.transmission_id
        msgOP == message.op
    IN  IF msgID # transmission_id
        THEN SolstisError("Message with ID" \o ToString(msgID)
                          \o " did not match expected ID of: "
                          \o ToString(transmission_id), 10)
        ELSE IF msgOP # op
        THEN SolstisError("Message with ID" \o ToString(msgID)
                          \o "with operation command of '" \o msgOP
                          \o "' did not match expected operation command of: "
                          \o op, 0)
        ELSE NoError

\* Faulty variant: the reply op is not compared.
verify_messsage_no_op_check(message, op, transmission_id) ==
    LET msgID == message.transmission_id
        msgOP == message.op
    IN  IF msgOP = "parse_fail"
        THEN SolstisError("Mesage with ID " \o ToString(msgID)
                          \o " failed to parse." \o "\n\n" \o ToString(message), 10)
        ELSE IF msgID # transmission_id
        THEN SolstisError("Message with ID" \o ToString(msgID)
                          \o " did not match expected ID of: "
                          \o ToString(transmission_id), 10)
        ELSE NoError

\* _verify_messsage(message, op, transmission_id): the exception it raises,
\* or NoError.  Every handler passes both op and transmission_id.
verify_messsage(message, op, transmission_id) ==
    LET msgID == message.transmission_id
        msgOP == message.op
    IN  IF msgOP = "parse_fail"
        THEN SolstisError("Mesage with ID " \o ToString(msgID)
                          \o " failed to parse." \o "\n\n" \o ToString(message), 10)
        ELSE IF msgID # transmission_id
        THEN SolstisError("Message with ID" \o ToString(msgID)
                          \o " did not match expected ID of: "
                          \o ToString(transmission_id), 10)
        ELSE IF msgOP # op
        THEN SolstisError("Message with ID" \o ToString(msgID)
                          \o "with operation command of '" \o msgOP
                          \o "' did not match expected operation command of: "
                          \o op, 0)
        ELSE NoError

\* The status check that _move_wave_t alone makes after verification.
move_wave_t_status(response) ==
    IF ~response.has_parameters \/ ~response.has_status
    THEN Exception("KeyError", IF response.has_parameters THEN "status" ELSE "parameters")
    ELSE IF response.status = "0"
    THEN NoError
    ELSE IF Unhashable(response.status)
    THEN Exception("TypeError", "unhashable type")
    ELSE SolstisError("Failed to move wavelength: "
                      \o (CASE response.status = "1" -> "Command failed."
                            [] response.status = "2" -> "Wavelength out of range."
                            [] OTHER -> "Unknown error"), 0)

\* The part of a handler that follows receive_response(): the exception it
\* raises, or NoError when it returns the response.
handler_after_receive(handler, transmission_id, response) ==
    LET v == verify_messsage(response, handler_op_reply(handler), transmission_id)
    IN  IF v # NoError THEN v
        ELSE IF handler = "_move_wave_t" THEN move_wave_t_status(response)
        ELSE NoError

\* Faulty variant: a status the catalog entry does not list passes.
check_response_unknown_passes(response) ==
    LET operation == response.op
        status == IF response.has_status THEN response.status ELSE "0"
        op_index == get_value_from_op_reply(operation)
    IN  IF ~response.has_parameters
        THEN Exception("KeyError", "parameters")
        ELSE IF has_command_op_reply(operation)
        THEN IF Unhashable(status)
             THEN Exception("TypeError", "unhashable type")
             ELSE IF status \in DOMAIN status_messages_severity(op_index)
             THEN IF status_messages_severity(op_index)[status][2] # 0
                  THEN SolstisError(status_messages_severity(op_index)[status][1],
                                    status_messages_severity(op_index)[status][2])
                  ELSE NoError
             ELSE NoError
        ELSE SolstisError("Invalid operation.", 2)

\* Faulty variant: only severity 2 raises, severity 1 is let through.
check_response_severity_two_only(response) ==
    LET operation == response.op
        status == IF response.has_status THEN response.status ELSE "0"
        op_index == get_value_from_op_reply(operation)
    IN  IF ~response.has_parameters
        THEN Exception("KeyError", "parameters")
        ELSE IF has_command_op_reply(operation)
        THEN IF Unhashable(status)
             THEN Exception("TypeError", "unhashable type")
             ELSE IF status \in DOMAIN status_messages_severity(op_index)
             THEN IF status_messages_severity(op_index)[status][2] > 1
                  THEN SolstisError(status_messages_severity(op_index)[status][1],
                                    status_messages_severity(op_index)[status][2])
                  ELSE NoError
             ELSE SolstisError("Unknown error.", 2)
        ELSE SolstisError("Invalid operation.", 2)

\* _check_response(response): the exception it raises, or NoError.
check_response(response) ==
    LET operation == response.op
        status == IF response.has_status THEN response.status ELSE "0"
        op_index == get_value_from_op_reply(operation)
    IN  IF ~response.has_parameters
        THEN Exception("KeyError", "parameters")
        ELSE IF has_command_op_reply(operation)
        THEN IF Unhashable(status)
             THEN Exception("TypeError", "unhashable type")
             ELSE IF status \in DOMAIN status_messages_severity(op_index)
             THEN IF status_messages_severity(op_index)[status][2] # 0
                  THEN SolstisError(status_messages_severity(op_index)[status][1],
                                    status_messages_severity(op_index)[status][2])
                  ELSE NoError
             ELSE SolstisError("Unknown error.", 2)
        ELSE SolstisError("Invalid operation.", 2)

(***************************************************************************)
(* The instrument: the replies it may give to a request                    *)
(***************************************************************************)
\* An id other than the one sent.
OtherId(transmission_id) == (transmission_id + 1) % (max_transmission_id + 1)

\* Status literals no catalog entry has, one known to some entries only,
\* and a list.
ExtraStatus == {"0", "7", "\"ok\"", "[0]"}

StatusValues(command_id) ==
    (IF command_id \in CatalogKeys THEN DOMAIN status_messages_severity(command_id) ELSE {})
    \cup ExtraStatus

ReplyOps(command_id) ==
    {handler_op_reply(command_dispatch(command_id)),
     command_op_reply(command_id),
     handler_op(command_dispatch(command_id)),
     "ping_reply",
     "parse_fail"}

Replies(command_id, transmission_id) ==
    { [transmission_id |-> t, op |-> o, has_parameters |-> p[1],
       has_status |-> p[2], status |-> p[3]] :
        t \in {transmission_id, OtherId(transmission_id)},
        o \in ReplyOps(command_id),
        p \in {<<FALSE, FALSE, "">>, <<TRUE, FALSE, "">>}
              \cup { <<TRUE, TRUE, s>> : s \in StatusValues(command_id) } }

(***************************************************************************)
(* The request on the wire: json.dumps in send_command, json.loads at the  *)
(* receiving end.  Text is a sequence of units: one unit per character for *)
(* digits, punctuation, quotes, backslashes and spaces, one unit for a     *)
(* run of other characters (a name).                                       *)
(***************************************************************************)
\* Python objects.  A float is kept as its number of tenths; a dict is the
\* sequence key, value, key, value, ... in insertion order.
PyNone == [type |-> "None", num |-> 0, text |-> <<>>, items |-> <<>>]

PyBool(b) == [type |-> "bool", num |-> IF b THEN 1 ELSE 0, text |-> <<>>, items |-> <<>>]

PyInt(n) == [type |-> "int", num |-> n, text |-> <<>>, items |-> <<>>]

PyFloat(tenths) == [type |-> "float", num |-> tenths, text |-> <<>>, items |-> <<>>]

PyStr(text) == [type |-> "str", num |-> 0, text |-> text, items |-> <<>>]

PyList(items) == [type |-> "list", num |-> 0, text |-> <<>>, items |-> items]

PyDict(items) == [type |-> "dict", num |-> 0, text |-> <<>>, items |-> items]

\* What json.loads gives for text that is not JSON: it raises.
JSONDecodeError == [type |-> "JSONDecodeError", num |-> 0, text |-> <<>>, items |-> <<>>]

\* d[key] for the items of a dict, KeyError when the key is absent.
KeyError == [type |-> "KeyError", num |-> 0, text |-> <<>>, items |-> <<>>]

RECURSIVE dict_get(_, _)
dict_get(items, key) ==
    IF Len(items) < 2 THEN KeyError
    ELSE IF items[1] = PyStr(<<key>>) THEN items[2]
    ELSE dict_get(SubSeq(items, 3, Len(items)), key)

DigitChars == <<"0", "1", "2", "3", "4", "5", "6", "7", "8", "9">>

IsDigit(c) == \E d \in 1..10 : DigitChars[d] = c

DigitValue(c) == (CHOOSE d \in 1..10 : DigitChars[d] = c) - 1

RECURSIVE Digits(_)
Digits(n) ==
    IF n < 10 THEN <<DigitChars[n + 1]>>
    ELSE Digits(n \div 10) \o <<DigitChars[(n % 10) + 1]>>

\* int.__repr__
int_repr(n) == IF n < 0 THEN <<"-">> \o Digits(0 - n) ELSE Digits(n)

\* Faulty variant: the fraction is dropped.
float_repr_truncated(tenths) ==
    LET magnitude == IF tenths < 0 THEN 0 - tenths ELSE tenths
    IN  (IF tenths < 0 THEN <<"-">> ELSE <<>>) \o Digits(magnitude \div 10)

\* float.__repr__ for a float with one decimal
float_repr(tenths) ==
    LET magnitude == IF tenths < 0 THEN 0 - tenths ELSE tenths
    IN  (IF tenths < 0 THEN <<"-">> ELSE <<>>)
        \o Digits(magnitude \div 10) \o <<".">> \o Digits(magnitude % 10)

\* The body of a JSON string: a quote and a backslash get a backslash before them.
RECURSIVE encode_basestring(_)
encode_basestring(text) ==
    IF text = <<>> THEN <<>>
    ELSE (IF Head(text) \in {"\"", "\\"} THEN <<"\\", Head(text)>> ELSE <<Head(text)>>)
         \o encode_basestring(Tail(text))

\* json.dumps(obj) with the default separators ", " and ": ".
RECURSIVE json_dumps(_)
json_dumps(obj) ==
    LET RECURSIVE elements(_)
        elements(items) ==
            IF items = <<>> THEN <<>>
            ELSE json_dumps(Head(items))
                 \o (IF Len(items) > 1 THEN <<",", " ">> ELSE <<>>)
                 \o elements(Tail(items))
        RECURSIVE members(_)
        members(items) ==
            IF Len(items) < 2 THEN <<>>
            ELSE json_dumps(items[1]) \o <<":", " ">> \o json_dumps(items[2])
                 \o (IF Len(items) > 2 THEN <<",", " ">> ELSE <<>>)
                 \o members(SubSeq(items, 3, Len(items)))
    IN  CASE obj.type = "None" -> <<"null">>
          [] obj.type = "bool" -> IF obj.num = 1 THEN <<"true">> ELSE <<"false">>
          [] obj.type = "int" -> int_repr(obj.num)
          [] obj.type = "float" -> float_repr(obj.num)
          [] obj.type = "str" -> <<"\"">> \o encode_basestring(obj.text) \o <<"\"">>
          [] obj.type = "list" -> <<"[">> \o elements(obj.items) \o <<"]">>
          [] obj.type = "dict" -> <<"{">> \o members(obj.items) \o <<"}">>

\* The unit at position i, "" past the end.
At(s, i) == IF i \in 1..Len(s) THEN s[i] ELSE ""

Failed == [ok |-> FALSE, value |-> JSONDecodeError, next |-> 0]

Parsed(value, next) == [ok |-> TRUE, value |-> value, next |-> next]

RECURSIVE skip_whitespace(_, _)
skip_whitespace(s, i) == IF At(s, i) = " " THEN skip_whitespace(s, i + 1) ELSE i

RECURSIVE scan_digits(_, _, _, _)
scan_digits(s, i, num, count) ==
    IF IsDigit(At(s, i))
    THEN scan_digits(s, i + 1, num * 10 + DigitValue(At(s, i)), count + 1)
    ELSE [num |-> num, count |-> count, next |-> i]

\* A number: an int, or a float when a fraction follows (one decimal).
scan_number(s, i) ==
    LET negative == At(s, i) = "-"
        integer == scan_digits(s, IF negative THEN i + 1 ELSE i, 0, 0)
        frac == scan_digits(s, integer.next + 1, 0, 0)
        signed(n) == IF negative THEN 0 - n ELSE n
    IN  IF integer.count = 0 THEN Failed
        ELSE IF At(s, integer.next) = "."
        THEN IF frac.count = 1
             THEN Parsed(PyFloat(signed(integer.num * 10 + frac.num)), frac.next)
             ELSE Failed
        ELSE Parsed(PyInt(signed(integer.num)), integer.next)

\* The body of a string from position i up to the closing quote.
RECURSIVE scanstring(_, _, _)
scanstring(s, i, text) ==
    LET c == At(s, i)
    IN  IF c = "" THEN Failed
        ELSE IF c = "\"" THEN Parsed(PyStr(text), i + 1)
        ELSE IF c = "\\"
        THEN IF At(s, i + 1) \in {"\"", "\\"}
             THEN scanstring(s, i + 2, Append(text, At(s, i + 1)))
             ELSE Failed
        ELSE scanstring(s, i + 1, Append(text, c))

\* The JSON value that starts at position i.
RECURSIVE scan_once(_, _)
scan_once(s, i) ==
    LET c == At(s, i)
        RECURSIVE JSONArray(_, _)
        JSONArray(j, items) ==
            LET value == scan_once(s, j)
                end == skip_whitespace(s, value.next)
            IN  IF ~value.ok THEN Failed
                ELSE IF At(s, end) = ","
                THEN JSONArray(skip_whitespace(s, end + 1), Append(items, value.value))
                ELSE IF At(s, end) = "]"
                THEN Parsed(PyList(Append(items, value.value)), end + 1)
                ELSE Failed
        RECURSIVE JSONObject(_, _)
        JSONObject(j, items) ==
            LET key == IF At(s, j) = "\"" THEN scanstring(s, j + 1, <<>>) ELSE Failed
                colon == skip_whitespace(s, key.next)
                value == scan_once(s, skip_whitespace(s, colon + 1))
                end == skip_whitespace(s, value.next)
            IN  IF ~key.ok \/ At(s, colon) # ":" THEN Failed
                ELSE IF ~value.ok THEN Failed
                ELSE IF At(s, end) = ","
                THEN JSONObject(skip_whitespace(s, end + 1),
                                items \o <<key.value, value.value>>)
                ELSE IF At(s, end) = "}"
                THEN Parsed(PyDict(items \o <<key.value, value.value>>), end + 1)
                ELSE Failed
        first == skip_whitespace(s, i + 1)
    IN  CASE c = "\"" -> scanstring(s, i + 1, <<>>)
          [] c = "{" -> IF At(s, first) = "}" THEN Parsed(PyDict(<<>>), first + 1)
                        ELSE JSONObject(first, <<>>)
          [] c = "[" -> IF At(s, first) = "]" THEN Parsed(PyList(<<>>), first + 1)
                        ELSE JSONArray(first, <<>>)
          [] c = "null" -> Parsed(PyNone, i + 1)
          [] c = "true" -> Parsed(PyBool(TRUE), i + 1)
          [] c = "false" -> Parsed(PyBool(FALSE), i + 1)
          [] c = "-" \/ IsDigit(c) -> scan_number(s, i)
          [] OTHER -> Failed

\* json.loads(s): one value, nothing but whitespace around it.
json_loads(s) ==
    LET value == scan_once(s, skip_whitespace(s, 1))
    IN  IF value.ok /\ skip_whitespace(s, value.next) = Len(s) + 1
        THEN value.value
        ELSE JSONDecodeError

\* Faulty variant: the id is sent bare, not in a list.
send_command_message_bare_id(transmission_id, op, params) ==
    PyDict(<<PyStr(<<"message">>),
             PyDict(<<PyStr(<<"transmission_id">>), PyInt(transmission_id),
                      PyStr(<<"op">>), PyStr(<<op>>)>>
                    \o (IF params # PyNone THEN <<PyStr(<<"parameters">>), params>>
                        ELSE <<>>))>>)

\* The dict send_command builds: {"message": {"transmission_id": [id],
\* "op": op, "parameters": params}}, "parameters" only when params is not None.
send_command_message(transmission_id, op, params) ==
    PyDict(<<PyStr(<<"message">>),
             PyDict(<<PyStr(<<"transmission_id">>), PyList(<<PyInt(transmission_id)>>),
                      PyStr(<<"op">>), PyStr(<<op>>)>>
                    \o (IF params # PyNone THEN <<PyStr(<<"parameters">>), params>>
                        ELSE <<>>))>>)

\* Nothing has been given to send_command.
NoWire == [step |-> "none", via |-> "", kwargs |-> {}, transmission_id |-> 0, op |-> "",
           params |-> PyNone, bytes |-> <<>>, decoded |-> PyNone]

(***************************************************************************)
(* Two instances.  connection, transmission_id_counter and response_buffer  *)
(* (with timed_out and late, the state of the socket) are the attributes    *)
(* as seen through the instance the caller is using; other holds what      *)
(* __init__ gave the instance the caller is not using.                     *)
(***************************************************************************)
\* There is no second instance.
NoOther == [id |-> 0, connection |-> "None", transmission_id_counter |-> 0,
            response_buffer |-> <<>>, timed_out |-> FALSE, late |-> <<>>]

\* Faulty variant: the counter is an attribute of the class.
instance_attributes_counter_on_class == {"connection", "response_buffer"}

\* The attributes __init__ assigns on self: every instance has its own
\* (server_ip and server_port are not modelled).  _command is an attribute
\* of the class, the same table for all instances.
instance_attributes == {"connection", "response_buffer", "_transmission_id_counter"}

\* The value of an attribute read through instance i.
attribute(i, name) ==
    LET used == i # other.id \/ name \notin instance_attributes
    IN  CASE name = "connection" -> IF used THEN connection ELSE other.connection
          [] name = "response_buffer" ->
                 IF used THEN response_buffer ELSE other.response_buffer
          [] name = "_transmission_id_counter" ->
                 IF used THEN transmission_id_counter ELSE other.transmission_id_counter

(***************************************************************************)
(* Initial states                                                          *)
(***************************************************************************)
\* SolstisCore.__init__
Init ==
    /\ connection = "None"
    /\ transmission_id_counter = 0
    /\ response_buffer = <<>>
    /\ pc = "idle"
    /\ call = NoCall
    /\ result = NoResult
    /\ allocs = 0
    /\ calls = 0
    /\ timed_out = FALSE
    /\ late = <<>>
    /\ wire = NoWire
    /\ other = NoOther
    /\ cpc = [c \in Callers |-> "idle"]
    /\ ctmp = [c \in Callers |-> 0]
    /\ cret = [c \in Callers |-> 0]
    /\ interleaved = FALSE

\* A client that has made max_transmission_id - 1 allocations since __init__.
InitWrap ==
    /\ connection = "None"
    /\ transmission_id_counter = max_transmission_id - 1
    /\ response_buffer = <<>>
    /\ pc = "idle"
    /\ call = NoCall
    /\ result = NoResult
    /\ allocs = max_transmission_id - 1
    /\ calls = 0
    /\ timed_out = FALSE
    /\ late = <<>>
    /\ wire = NoWire
    /\ other = NoOther
    /\ cpc = [c \in Callers |-> "idle"]
    /\ ctmp = [c \in Callers |-> 0]
    /\ cret = [c \in Callers |-> 0]
    /\ interleaved = FALSE

\* A connected client shared by two callers, fresh or two allocations
\* before the wrap.
InitConc ==
    /\ connection = "socket"
    /\ transmission_id_counter \in {0, max_transmission_id - 1}
    /\ response_buffer = <<>>
    /\ pc = "idle"
    /\ call = NoCall
    /\ result = NoResult
    /\ allocs = 0
    /\ calls = 0
    /\ timed_out = FALSE
    /\ late = <<>>
    /\ wire = NoWire
    /\ other = NoOther
    /\ cpc = [c \in Callers |-> "idle"]
    /\ ctmp = [c \in Callers |-> 0]
    /\ cret = [c \in Callers |-> 0]
    /\ interleaved = FALSE

conc_vars == <<cpc, ctmp, cret, interleaved>>

(***************************************************************************)
(* Operations of one caller                                                *)
(***************************************************************************)
\* connect(): the socket is created and connected.
Connect ==
    /\ pc = "idle"
    /\ connection' = "socket"
    /\ timed_out' = FALSE
    /\ late' = <<>>
    /\ result' = Returned("connect", NoReply)
    /\ call' = NoCall
    /\ UNCHANGED <<transmission_id_counter, response_buffer, pc, allocs, calls, conc_vars, wire, other>>

\* Faulty variant: the socket that failed to connect is kept.
ConnectFails_keeps_socket(timeout) ==
    /\ pc = "idle"
    /\ connection' = "socket"
    /\ timed_out' = FALSE
    /\ late' = <<>>
    /\ result' = IF timeout
                 THEN Raised("connect", Exception("TimeoutError", "Connection timed out"))
                 ELSE [Returned("connect", NoReply) EXCEPT
                          !.message = "Failed to connect to the server: "]
    /\ call' = NoCall
    /\ UNCHANGED <<transmission_id_counter, response_buffer, pc, allocs, calls, conc_vars, wire, other>>

\* connect() fails: socket.timeout is re-raised as TimeoutError, any other
\* exception is printed (the text is kept in result.message) and swallowed;
\* both leave connection = None.
ConnectFails(timeout) ==
    /\ pc = "idle"
    /\ connection' = "None"
    /\ timed_out' = FALSE
    /\ late' = <<>>
    /\ result' = IF timeout
                 THEN Raised("connect", Exception("TimeoutError", "Connection timed out"))
                 ELSE [Returned("connect", NoReply) EXCEPT
                          !.message = "Failed to connect to the server: "]
    /\ call' = NoCall
    /\ UNCHANGED <<transmission_id_counter, response_buffer, pc, allocs, calls, conc_vars, wire, other>>

\* Faulty variant: close() is called without testing the connection;
\* None.close() raises AttributeError.
disconnect_unchecked(conn) ==
    IF conn = "None"
    THEN Raised("disconnect",
                Exception("AttributeError", "'NoneType' object has no attribute 'close'"))
    ELSE [Returned("disconnect", NoReply) EXCEPT !.closed = 1]

\* disconnect(): how it ends.  The socket is closed, once, only when one is
\* held; without one the body is skipped.
disconnect(conn) ==
    IF conn # "None"
    THEN [Returned("disconnect", NoReply) EXCEPT !.closed = 1]
    ELSE Returned("disconnect", NoReply)

\* Faulty variant: disconnect() also resets the transmission-id counter.
Disconnect_resets_counter ==
    /\ pc = "idle"
    /\ connection' = "None"
    /\ timed_out' = FALSE
    /\ late' = <<>>
    /\ result' = disconnect(connection)
    /\ call' = NoCall
    /\ transmission_id_counter' = 0
    /\ UNCHANGED <<response_buffer, pc, allocs, calls, conc_vars, wire, other>>

\* disconnect()
Disconnect ==
    /\ pc = "idle"
    /\ connection' = "None"
    /\ timed_out' = FALSE
    /\ late' = <<>>
    /\ result' = disconnect(connection)
    /\ call' = NoCall
    /\ UNCHANGED <<transmission_id_counter, response_buffer, pc, allocs, calls, conc_vars, wire, other>>

\* Faulty variant: the connection is not tested; None.sendall raises AttributeError.
send_command_unchecked(conn) ==
    IF conn = "None"
    THEN Exception("AttributeError", "'NoneType' object has no attribute 'sendall'")
    ELSE NoError

\* send_command: the exception it raises before anything is sent, or NoError.
send_command(conn) ==
    IF conn = "None"
    THEN SolstisError("Not connected to the server.", 10)
    ELSE NoError

\* Faulty variant: the message is put on the wire twice.
sendall_twice(sends) == sends + 2

\* self.connection.sendall(...): one more message on the wire.
sendall(sends) == sends + 1

\* self.connection.recv(1024): one more read of the socket.
recv(recvs) == recvs + 1

\* The public call that ended with result r failed: it raised, or (connect)
\* printed its failure.
call_failed(r) == r.kind = "raise" \/ r.message # ""

\* Faulty variant: a call binds whatever names it passes.
bind_anything(handler, kwargs) == TRUE

\* Python binds **kwargs to the handler's parameters: every parameter
\* without a default must be given and no other name may be given.
bind(handler, kwargs) ==
    /\ handler_required(handler) \subseteq kwargs
    /\ kwargs \subseteq (handler_required(handler) \cup handler_optional(handler))

\* Faulty variant: the id is allocated only after the assert on command_id.
command_allocates_after_assert(command_id, kwargs, wrapper, args) ==
    /\ LET transmission_id == allocate_transmission_id(transmission_id_counter)
           kwargs_fit == command_id \in CommandIds
                         /\ bind(command_dispatch(command_id), kwargs)
           this == [command_id |-> command_id, transmission_id |-> transmission_id,
                    sent |-> FALSE, op |-> "", handler |-> "", reply |-> NoReply,
                    wrapper |-> wrapper, args |-> args,
                    kwargs |-> kwargs, kwargs_fit |-> kwargs_fit,
                    counter_before |-> transmission_id_counter,
                    sends |-> 0, recvs |-> 0, stale |-> FALSE,
                    after |-> result.of, after_failed |-> call_failed(result),
                    response |-> NoReply]
       IN  /\ transmission_id_counter' = IF command_id \in CommandIds THEN transmission_id
                                       ELSE transmission_id_counter
           /\ allocs' = IF command_id \in CommandIds THEN allocs + 1 ELSE allocs
           /\ IF command_id \notin CommandIds
              THEN /\ call' = this
                   /\ result' = Raised("command", Exception("AssertionError",
                                  "Invalid command ID. " \o ToString(command_id)))
                   /\ pc' = "idle"
              ELSE LET handler == command_dispatch(command_id) IN
                   IF ~kwargs_fit
                   THEN /\ call' = [this EXCEPT !.handler = handler]
                        /\ result' = Raised("command", Exception("TypeError", "arguments"))
                        /\ pc' = "idle"
                   ELSE IF send_command(connection) # NoError
                   THEN /\ call' = [this EXCEPT !.handler = handler]
                        /\ result' = Raised("command", send_command(connection))
                        /\ pc' = "idle"
                   ELSE /\ call' = [this EXCEPT !.handler = handler, !.sent = TRUE,
                                                !.op = handler_op(handler),
                                                !.sends = sendall(this.sends)]
                        /\ result' = NoResult
                        /\ pc' = "recv"
    /\ UNCHANGED <<connection, response_buffer, timed_out, late, conc_vars, wire, other>>

\* command(command_id, **kwargs) up to the point where the handler blocks in
\* receive_response(): allocate the id, assert the id is in the table, call
\* the handler (TypeError when kwargs do not fit its signature), send_command
\* (SolstisError when there is no connection).  kwargs is the set of keyword
\* names passed; wrapper and args record the public wrapper that made the
\* call, "" and <<>> for a direct call; after and after_failed record the
\* public call made before this one.
command(command_id, kwargs, wrapper, args) ==
    /\ LET transmission_id == allocate_transmission_id(transmission_id_counter)
           kwargs_fit == command_id \in CommandIds
                         /\ bind(command_dispatch(command_id), kwargs)
           this == [command_id |-> command_id, transmission_id |-> transmission_id,
                    sent |-> FALSE, op |-> "", handler |-> "", reply |-> NoReply,
                    wrapper |-> wrapper, args |-> args,
                    kwargs |-> kwargs, kwargs_fit |-> kwargs_fit,
                    counter_before |-> transmission_id_counter,
                    sends |-> 0, recvs |-> 0, stale |-> FALSE,
                    after |-> result.of, after_failed |-> call_failed(result),
                    response |-> NoReply]
       IN  /\ transmission_id_counter' = transmission_id
           /\ allocs' = allocs + 1
           /\ IF command_id \notin CommandIds
              THEN /\ call' = this
                   /\ result' = Raised("command", Exception("AssertionError",
                                  "Invalid command ID. " \o ToString(command_id)))
                   /\ pc' = "idle"
              ELSE LET handler == command_dispatch(command_id) IN
                   IF ~kwargs_fit
                   THEN /\ call' = [this EXCEPT !.handler = handler]
                        /\ result' = Raised("command", Exception("TypeError", "arguments"))
                        /\ pc' = "idle"
                   ELSE IF send_command(connection) # NoError
                   THEN /\ call' = [this EXCEPT !.handler = handler]
                        /\ result' = Raised("command", send_command(connection))
                        /\ pc' = "idle"
                   ELSE /\ call' = [this EXCEPT !.handler = handler, !.sent = TRUE,
                                                !.op = handler_op(handler),
                                                !.sends = sendall(this.sends)]
                        /\ result' = NoResult
                        /\ pc' = "recv"
    /\ UNCHANGED <<connection, response_buffer, timed_out, late, conc_vars, wire, other>>

\* Faulty variant: the client keeps track of the scan: scan_stitch_op is
\* refused unless the command before it was scan_stitch_initialise.
Command_scan_sequenced(command_id, kwargs) ==
    /\ pc = "idle"
    /\ calls < MaxCalls
    /\ calls' = calls + 1
    /\ IF command_id = 28 /\ call.command_id # 27
       THEN /\ call' = [NoCall EXCEPT !.command_id = command_id, !.kwargs = kwargs,
                                      !.transmission_id = transmission_id_counter,
                                      !.counter_before = transmission_id_counter,
                                      !.after = result.of,
                                      !.after_failed = call_failed(result)]
            /\ result' = Raised("command", SolstisError("Scan not initialised.", 1))
            /\ UNCHANGED <<connection, transmission_id_counter, response_buffer, pc,
                           allocs, timed_out, late, conc_vars, wire, other>>
       ELSE command(command_id, kwargs, "", <<>>)

\* A direct call of command().
Command(command_id, kwargs) ==
    /\ pc = "idle"
    /\ calls < MaxCalls
    /\ calls' = calls + 1
    /\ command(command_id, kwargs, "", <<>>)

SetMin(S) == CHOOSE x \in S : \A y \in S : x <= y

SetMax(S) == CHOOSE x \in S : \A y \in S : y <= x

\* The values tried for an argument whose allowed values are S: the two
\* ends of S and the values just outside them.
Probe(S) == {SetMin(S) - 1, SetMin(S), SetMax(S), SetMax(S) + 1}

\* The argument tuples tried for a wrapper, one value per entry of
\* wrapper_params: every argument at the low end of its allowed values, and
\* each argument in turn at its other probe values.
WrapperArgs(wrapper) ==
    LET P == wrapper_params(wrapper)
        low == [i \in 1..Len(P) |-> SetMin(P[i].allowed)]
    IN  {low} \cup UNION { { [low EXCEPT ![i] = v] : v \in Probe(P[i].allowed) } :
                            i \in 1..Len(P) }

\* Every wrapper call tried: <<wrapper, args>>.
WrapperCalls ==
    UNION { { <<wrapper, args>> : args \in WrapperArgs(wrapper) } : wrapper \in wrapper_names }

\* The wrappers tried by the calls after the first: one without arguments, one
\* with a wavelength assert, one with a percentage assert, one per fault of the
\* wrappers that cannot reach the socket, and the one whose handler checks the
\* status itself.
LaterWrappers ==
    {"ping", "set_wave_m", "beam_adjust_x", "move_wave_t", "scan_stitch_initialise",
     "terascan_output"}

\* The wrapper calls tried by the call that follows n earlier ones.
WrapperCallsAt(n) ==
    IF n = 0 THEN WrapperCalls ELSE { wcall \in WrapperCalls : wcall[1] \in LaterWrappers }

\* Faulty variant: the wrappers assert nothing.
first_failed_assert_none(wrapper, args) == 0

\* The index of the first assert of the wrapper that fails, 0 when none does.
first_failed_assert(wrapper, args) ==
    LET P == wrapper_params(wrapper)
        failed == { i \in 1..Len(P) : P[i].checked /\ args[i] \notin P[i].allowed }
    IN  IF failed = {} THEN 0 ELSE SetMin(failed)

\* The exception a wrapper raises before it calls command(), or NoError.
wrapper_local(wrapper, args) ==
    LET i == first_failed_assert(wrapper, args)
    IN  IF i # 0
        THEN Exception("AssertionError", wrapper_params(wrapper)[i].message)
        ELSE IF wrapper_fault(wrapper) # ""
        THEN Exception(wrapper_fault(wrapper), "name is not defined")
        ELSE NoError

\* A call of a public wrapper: its asserts, then command().
Wrapper(wrapper, args) ==
    /\ pc = "idle"
    /\ calls < MaxCalls
    /\ calls' = calls + 1
    /\ IF wrapper_local(wrapper, args) # NoError
       THEN /\ call' = [NoCall EXCEPT !.wrapper = wrapper, !.args = args,
                                      !.kwargs = wrapper_kw(wrapper),
                                      !.after = result.of,
                                      !.after_failed = call_failed(result),
                                      !.command_id = wrapper_command(wrapper),
                                      !.counter_before = transmission_id_counter]
            /\ result' = Raised("wrapper", wrapper_local(wrapper, args))
            /\ UNCHANGED <<connection, transmission_id_counter, response_buffer, pc,
                           allocs, timed_out, late, conc_vars, wire, other>>
       ELSE command(wrapper_command(wrapper), wrapper_kw(wrapper), wrapper, args)

\* Faulty variant: the status is classified before the reply is verified.
command_result_status_first(handler, transmission_id, response) ==
    LET h == handler_after_receive(handler, transmission_id, response)
        c == check_response(response)
    IN  IF c # NoError /\ c.exc = "SolstisError" /\ c.message # "Invalid operation."
        THEN Raised("command", c)
        ELSE IF h # NoError THEN Raised("command", h)
        ELSE IF c # NoError THEN Raised("command", c)
        ELSE Returned("command", response)

\* How command() ends once receive_response() has returned response: the
\* handler verifies it, then _check_response classifies it, then it is returned.
command_result(handler, transmission_id, response) ==
    LET h == handler_after_receive(handler, transmission_id, response)
        c == check_response(response)
    IN  IF h # NoError THEN Raised("command", h)
        ELSE IF c # NoError THEN Raised("command", c)
        ELSE Returned("command", response)

\* Faulty variant: the first message of the buffer is read but not removed.
receive_response_keeps_message(response_in, stale) ==
    /\ LET buffered == Append(response_buffer, response_in)
           response == Head(buffered)
       IN  /\ response_buffer' = buffered
           /\ call' = [call EXCEPT !.reply = response_in, !.recvs = recv(call.recvs),
                                   !.stale = stale, !.response = response]
           /\ result' = command_result(call.handler, call.transmission_id, response)
    /\ pc' = "idle"
    /\ UNCHANGED <<connection, transmission_id_counter, allocs, calls, timed_out, conc_vars, wire, other>>

\* receive_response() when recv returns bytes that decode to response_in,
\* and the rest of command().  reply is what recv gave, response what
\* receive_response() returned.
receive_response(response_in, stale) ==
    /\ LET buffered == Append(response_buffer, response_in)
           response == Head(buffered)
       IN  /\ response_buffer' = Tail(buffered)
           /\ call' = [call EXCEPT !.reply = response_in, !.recvs = recv(call.recvs),
                                   !.stale = stale, !.response = response]
           /\ result' = command_result(call.handler, call.transmission_id, response)
    /\ pc' = "idle"
    /\ UNCHANGED <<connection, transmission_id_counter, allocs, calls, timed_out, conc_vars, wire, other>>

\* The instrument answers the request in time.
Receive(response_in) ==
    /\ pc = "recv"
    /\ late = <<>>
    /\ receive_response(response_in, FALSE)
    /\ UNCHANGED late

\* The reply the instrument gives to the request of call c when it is not
\* read by c: the reply op of the request, its id, no status field.
LateReply(c) ==
    [transmission_id |-> c.transmission_id, op |-> handler_op_reply(c.handler),
     has_parameters |-> TRUE, has_status |-> FALSE, status |-> ""]

\* recv returns the oldest unread reply, the answer to an earlier request
\* whose receive timed out; the answer to this request stays unread.
ReceiveLate ==
    /\ pc = "recv"
    /\ late # <<>>
    /\ receive_response(Head(late), TRUE)
    /\ late' = Append(Tail(late), LateReply(call))

\* Faulty variant: a failed receive drops the connection.
ReceiveFails_drops_connection(exc, arrives) ==
    /\ pc = "recv"
    /\ arrives => exc = "socket.timeout"
    /\ result' = Raised("command", Exception(exc, ""))
    /\ call' = [call EXCEPT !.recvs = recv(call.recvs)]
    /\ timed_out' = (timed_out \/ exc = "socket.timeout")
    /\ late' = IF arrives THEN Append(late, LateReply(call)) ELSE late
    /\ pc' = "idle"
    /\ connection' = "None"
    /\ UNCHANGED <<transmission_id_counter, response_buffer, allocs,
                   calls, conc_vars, wire, other>>

\* receive_response() raises: recv times out, or the bytes received are not
\* JSON.  The exception leaves command() before the buffer is touched.  After
\* a timeout the reply may still arrive (arrives) or be lost.
ReceiveFails(exc, arrives) ==
    /\ pc = "recv"
    /\ arrives => exc = "socket.timeout"
    /\ result' = Raised("command", Exception(exc, ""))
    /\ call' = [call EXCEPT !.recvs = recv(call.recvs)]
    /\ timed_out' = (timed_out \/ exc = "socket.timeout")
    /\ late' = IF arrives THEN Append(late, LateReply(call)) ELSE late
    /\ pc' = "idle"
    /\ UNCHANGED <<connection, transmission_id_counter, response_buffer, allocs,
                   calls, conc_vars, wire, other>>

\* The keyword names a caller may pass to command(): the required names,
\* with the optional ones, without one required name, with a name the
\* handler does not have.
KwargsInputs(command_id) ==
    IF command_id \notin CommandIds THEN {{}}
    ELSE LET required == handler_required(command_dispatch(command_id))
             optional == handler_optional(command_dispatch(command_id))
         IN  {required, required \cup optional, required \cup {"unexpected"}}
             \cup (IF required = {} THEN {}
                   ELSE {required \ {CHOOSE name \in required : TRUE}})

\* Command ids a caller may pass: every id of the table and two that are not in it.
CommandInputs == CommandIds \cup {0, 52}

\* The ids tried by the calls after the first: one that is not in the table, one
\* with a required parameter, the ones whose handler or catalog entry differs
\* from the rest (2, 5, 15, 37), one of the scan family (scan_stitch_op),
\* start_link and ping.
LaterCommandInputs == {0, 1, 2, 5, 15, 28, 37, 100, 101}

\* The command ids tried by the call that follows n earlier ones.
CommandInputsAt(n) == IF n = 0 THEN CommandInputs ELSE LaterCommandInputs

Next ==
    \/ Connect
    \/ \E timeout \in BOOLEAN : ConnectFails(timeout)
    \/ Disconnect
    \/ \E command_id \in CommandInputsAt(calls) :
           \E kwargs \in KwargsInputs(command_id) : Command(command_id, kwargs)
    \/ /\ pc = "recv"
       /\ \E response_in \in Replies(call.command_id, call.transmission_id) :
              Receive(response_in)
    \/ ReceiveLate
    \/ \E exc \in {"socket.timeout", "JSONDecodeError"}, arrives \in BOOLEAN :
           ReceiveFails(exc, arrives)

Spec == Init /\ [][Next]_vars

\* Two SolstisCore instances have been constructed; the caller uses the first.
InitTwo ==
    /\ connection = "None"
    /\ transmission_id_counter = 0
    /\ response_buffer = <<>>
    /\ pc = "idle"
    /\ call = NoCall
    /\ result = NoResult
    /\ allocs = 0
    /\ calls = 0
    /\ timed_out = FALSE
    /\ late = <<>>
    /\ wire = NoWire
    /\ other = [NoOther EXCEPT !.id = 2]
    /\ cpc = [c \in Callers |-> "idle"]
    /\ ctmp = [c \in Callers |-> 0]
    /\ cret = [c \in Callers |-> 0]
    /\ interleaved = FALSE

\* The caller turns to the other instance: from now on self.connection,
\* self.response_buffer and self._transmission_id_counter are that
\* instance's, for the attributes every instance has of its own.
Switch ==
    /\ pc = "idle"
    /\ other.id # 0
    /\ IF "connection" \in instance_attributes
       THEN /\ connection' = other.connection
            /\ timed_out' = other.timed_out
            /\ late' = other.late
       ELSE UNCHANGED <<connection, timed_out, late>>
    /\ IF "response_buffer" \in instance_attributes
       THEN response_buffer' = other.response_buffer
       ELSE UNCHANGED response_buffer
    /\ IF "_transmission_id_counter" \in instance_attributes
       THEN transmission_id_counter' = other.transmission_id_counter
       ELSE UNCHANGED transmission_id_counter
    /\ other' = [id |-> 3 - other.id, connection |-> connection,
                 transmission_id_counter |-> transmission_id_counter,
                 response_buffer |-> response_buffer,
                 timed_out |-> timed_out, late |-> late]
    /\ result' = NoResult
    /\ call' = NoCall
    /\ UNCHANGED <<pc, allocs, calls, conc_vars, wire>>

\* The ids tried with two instances: one that is not in the table, one
\* without parameters and one with a required parameter.
TwoCommandInputs == {0, 2, 101}

\* The caller uses either instance.
NextTwo ==
    \/ Connect
    \/ \E timeout \in BOOLEAN : ConnectFails(timeout)
    \/ Disconnect
    \/ \E command_id \in TwoCommandInputs :
           \E kwargs \in KwargsInputs(command_id) : Command(command_id, kwargs)
    \/ /\ pc = "recv"
       /\ \E response_in \in Replies(call.command_id, call.transmission_id) :
              Receive(response_in)
    \/ ReceiveLate
    \/ \E exc \in {"socket.timeout", "JSONDecodeError"}, arrives \in BOOLEAN :
           ReceiveFails(exc, arrives)
    \/ Switch

SpecTwo == InitTwo /\ [][NextTwo]_vars

SpecWrap == InitWrap /\ [][Next]_vars

\* The client used through its public wrappers.
NextApi ==
    \/ Connect
    \/ \E timeout \in BOOLEAN : ConnectFails(timeout)
    \/ Disconnect
    \/ \E wcall \in WrapperCallsAt(calls) : Wrapper(wcall[1], wcall[2])
    \/ /\ pc = "recv"
       /\ \E response_in \in Replies(call.command_id, call.transmission_id) :
              Receive(response_in)
    \/ ReceiveLate
    \/ \E exc \in {"socket.timeout", "JSONDecodeError"}, arrives \in BOOLEAN :
           ReceiveFails(exc, arrives)

SpecApi == Init /\ [][NextApi]_vars

(***************************************************************************)
(* One request from send_command to the receiving end                      *)
(***************************************************************************)
\* A text with a quote, a backslash and a space in it.
AwkwardText == <<"a", "\"", "b", "\\", " ", "c">>

\* Values a caller may give for a parameter.
CodecValues ==
    <<PyInt(0), PyInt(0 - 1), PyInt(31), PyFloat(7805), PyFloat(0 - 5), PyBool(TRUE),
      PyStr(<<>>), PyStr(<<"on">>), PyStr(AwkwardText),
      PyList(<<PyFloat(1000), PyInt(2)>>)>>

\* Transmission ids of one to ten digits.
CodecIds == {0, 1, 9, 10, max_transmission_id}

RECURSIVE SetToSeq(_)
SetToSeq(S) ==
    IF S = {} THEN <<>>
    ELSE LET x == CHOOSE y \in S : TRUE IN <<x>> \o SetToSeq(S \ {x})

\* A dict with the keys given: the i-th with the value CodecValues[i + shift].
CodecDictOf(keys, shift) ==
    LET names == SetToSeq(keys)
        RECURSIVE members(_)
        members(i) ==
            IF i > Len(names) THEN <<>>
            ELSE <<PyStr(<<names[i]>>), CodecValues[((i + shift) % Len(CodecValues)) + 1]>>
                 \o members(i + 1)
    IN  PyDict(members(1))

\* The params dict of a handler with all its parameter names.
CodecDict(handler, shift) ==
    CodecDictOf(handler_required(handler) \cup handler_optional(handler), shift)

\* The params a handler gives to send_command when it is called with the
\* keyword names kwargs: a dict of them; nothing (params=None) when it has no
\* parameter, and None when _read_all_adc is called without report.  An
\* optional parameter that is not given is left out of the dict.
handler_params(handler, kwargs, shift) ==
    IF kwargs = {} THEN PyNone ELSE CodecDictOf(kwargs, shift)

\* params=None, or a dict.
CodecParams(handler) ==
    {PyNone} \cup { CodecDict(handler, shift) : shift \in 1..Len(CodecValues) }

\* send_command(transmission_id, op, params) is about to be called, by the
\* handler of a command (via = "handler", with the keyword names kwargs), or
\* by a caller of the public method with params of its own.
InitCodec ==
    /\ connection = "socket"
    /\ transmission_id_counter = 0
    /\ response_buffer = <<>>
    /\ pc = "idle"
    /\ call = NoCall
    /\ result = NoResult
    /\ allocs = 0
    /\ calls = 0
    /\ timed_out = FALSE
    /\ late = <<>>
    /\ cpc = [c \in Callers |-> "idle"]
    /\ ctmp = [c \in Callers |-> 0]
    /\ cret = [c \in Callers |-> 0]
    /\ interleaved = FALSE
    /\ other = NoOther
    /\ \E command_id \in CommandIds, transmission_id \in CodecIds :
           LET handler == command_dispatch(command_id)
               request == [NoWire EXCEPT !.step = "call",
                                         !.transmission_id = transmission_id,
                                         !.op = handler_op(handler)]
           IN  \/ \E params \in CodecParams(handler) :
                      wire = [request EXCEPT !.via = "send_command", !.params = params]
               \/ \E kwargs \in { k \in KwargsInputs(command_id) : bind(handler, k) },
                     shift \in 1..Len(CodecValues) :
                      wire = [request EXCEPT
                                 !.via = "handler", !.kwargs = kwargs,
                                 !.params = handler_params(handler, kwargs, shift)]

\* send_command after the connection test: build the message, json.dumps.
Encode ==
    /\ wire.step = "call"
    /\ wire' = [wire EXCEPT
                   !.step = "sent",
                   !.bytes = json_dumps(send_command_message(wire.transmission_id,
                                                             wire.op, wire.params))]
    /\ UNCHANGED <<connection, transmission_id_counter, response_buffer, pc, call, result,
                   allocs, calls, timed_out, late, conc_vars, other>>

\* The receiving end: json.loads of the text sent.
Decode ==
    /\ wire.step = "sent"
    /\ wire' = [wire EXCEPT !.step = "decoded", !.decoded = json_loads(wire.bytes)]
    /\ UNCHANGED <<connection, transmission_id_counter, response_buffer, pc, call, result,
                   allocs, calls, timed_out, late, conc_vars, other>>

NextCodec == Encode \/ Decode

SpecCodec == InitCodec /\ [][NextCodec]_vars

(***************************************************************************)
(* Two callers sharing one client: _allocate_transmission_id step by step  *)
(***************************************************************************)
Allocating == {"loaded", "stored", "wrapped"}

\* counter += 1, first half: read the counter.
CLoad(c) ==
    /\ cpc[c] = "idle"
    /\ calls < MaxConcCalls
    /\ calls' = calls + 1
    /\ allocs' = allocs + 1
    /\ ctmp' = [ctmp EXCEPT ![c] = transmission_id_counter]
    /\ cpc' = [cpc EXCEPT ![c] = "loaded"]
    /\ interleaved' = (interleaved \/ \E d \in Callers \ {c} : cpc[d] \in Allocating)
    /\ UNCHANGED <<connection, transmission_id_counter, response_buffer, pc, call, result,
                   timed_out, late, wire, other, cret>>

\* counter += 1, second half: write the value read plus one.
CStore(c) ==
    /\ cpc[c] = "loaded"
    /\ transmission_id_counter' = Increment(ctmp[c])
    /\ cpc' = [cpc EXCEPT ![c] = "stored"]
    /\ UNCHANGED <<connection, response_buffer, pc, call, result, allocs, calls, timed_out, late, wire, other,
                   ctmp, cret, interleaved>>

\* if counter > max_transmission_id: counter = 0
CWrap(c) ==
    /\ cpc[c] = "stored"
    /\ transmission_id_counter' = Wrap(transmission_id_counter)
    /\ cpc' = [cpc EXCEPT ![c] = "wrapped"]
    /\ UNCHANGED <<connection, response_buffer, pc, call, result, allocs, calls, timed_out, late, wire, other,
                   ctmp, cret, interleaved>>

\* return self._transmission_id_counter
CReturn(c) ==
    /\ cpc[c] = "wrapped"
    /\ cret' = [cret EXCEPT ![c] = transmission_id_counter]
    /\ cpc' = [cpc EXCEPT ![c] = "allocated"]
    /\ UNCHANGED <<connection, transmission_id_counter, response_buffer, pc, call, result,
                   allocs, calls, timed_out, late, wire, other, ctmp, interleaved>>

\* The handler sends the request carrying the id: it is outstanding.
CSend(c) ==
    /\ cpc[c] = "allocated"
    /\ connection = "socket"
    /\ cpc' = [cpc EXCEPT ![c] = "outstanding"]
    /\ UNCHANGED <<connection, transmission_id_counter, response_buffer, pc, call, result,
                   allocs, calls, timed_out, late, wire, other, ctmp, cret, interleaved>>

\* The caller's receive_response() returns or raises: its command() ends.
CReceive(c) ==
    /\ cpc[c] = "outstanding"
    /\ cpc' = [cpc EXCEPT ![c] = "idle"]
    /\ UNCHANGED <<connection, transmission_id_counter, response_buffer, pc, call, result,
                   allocs, calls, timed_out, late, wire, other, ctmp, cret, interleaved>>

NextConc ==
    \/ \E c \in Callers : CLoad(c)
    \/ \E c \in Callers : CStore(c)
    \/ \E c \in Callers : CWrap(c)
    \/ \E c \in Callers : CReturn(c)
    \/ \E c \in Callers : CSend(c)
    \/ \E c \in Callers : CReceive(c)

SpecConc == InitConc /\ [][NextConc]_vars

(***************************************************************************)
(* Properties                                                              *)
(***************************************************************************)
\* command() has ended after receive_response() returned a reply.
Completed == result.of = "command" /\ pc = "idle" /\ call.sent /\ call.reply # NoReply

\* The reply carries the id sent and the reply op the handler expects.
Correlated ==
    /\ call.reply.transmission_id = call.transmission_id
    /\ call.reply.op = handler_op_reply(call.handler)

\* The reply carries a status that is a key of the catalog entry of the command.
StatusInCatalog ==
    /\ call.reply.has_parameters
    /\ call.reply.has_status
    /\ call.reply.status \in DOMAIN status_messages_severity(call.command_id)

CatalogEntry == status_messages_severity(call.command_id)[call.reply.status]

\* C1: for every command id of the dispatch table, a reply with the id sent,
\* the reply op the handler expects and a status of catalog severity 0 makes
\* command() return exactly the reply received.
C1_SuccessReturnsReply ==
    (Completed /\ Correlated /\ StatusInCatalog /\ CatalogEntry[2] = 0)
        => result = Returned("command", call.reply)

\* C2: a reply whose transmission id differs from the id command() allocated
\* and sent makes command() raise; the reply is not returned.
C2_IdMismatchRaises ==
    (Completed /\ call.reply.transmission_id # call.transmission_id)
        => (result.kind = "raise" /\ result.exc = "SolstisError" /\ result.value = NoReply)

C2_Witness ==
    /\ Completed
    /\ call.reply.transmission_id # call.transmission_id
    /\ call.reply.op = handler_op_reply(call.handler)
    /\ StatusInCatalog /\ CatalogEntry[2] = 0
    /\ result.kind = "raise"

\* C3: a reply whose op is "parse_fail" makes command() raise the parse
\* failure error, for every request and whether or not the reply's id is the
\* id sent; the reply is not returned.
C3_ParseFailRaises ==
    (Completed /\ call.reply.op = "parse_fail")
        => /\ result.kind = "raise"
           /\ result.exc = "SolstisError"
           /\ result.message = "Mesage with ID " \o ToString(call.reply.transmission_id)
                               \o " failed to parse." \o "\n\n" \o ToString(call.reply)
           /\ result.value = NoReply

C3_Witness ==
    /\ Completed
    /\ call.reply.op = "parse_fail"
    /\ call.reply.transmission_id = call.transmission_id
    /\ call.reply.has_status /\ call.reply.status = "0"
    /\ result.kind = "raise"

\* C4: a reply whose op differs from the wire op sent followed by "_reply"
\* makes command() raise, even when the id matches and the status is a
\* success value; the reply is not returned.
C4_OpMismatchRaises ==
    (Completed /\ call.reply.op # call.op \o "_reply")
        => (result.kind = "raise" /\ result.value = NoReply)

C4_Witness ==
    /\ Completed
    /\ call.reply.op # call.op \o "_reply"
    /\ call.reply.op # "parse_fail"
    /\ has_command_op_reply(call.reply.op)
    /\ call.reply.transmission_id = call.transmission_id
    /\ call.reply.has_status /\ call.reply.status = "0"
    /\ result.kind = "raise"

\* A communication failure detected by the client: no connection, a
\* parse_fail reply, an id mismatch or a reply op mismatch.
CommunicationFailure ==
    /\ result.of = "command" /\ pc = "idle"
    /\ \/ /\ call.handler # "" /\ ~call.sent /\ result.exc = "SolstisError"
       \/ /\ call.sent /\ call.reply # NoReply
          /\ \/ call.reply.op = "parse_fail"
             \/ call.reply.transmission_id # call.transmission_id
             \/ call.reply.op # handler_op_reply(call.handler)

\* C5: every communication failure detected by the client raises an error
\* whose severity attribute is 10.
C5_CommunicationFailureSeverity ==
    CommunicationFailure => (result.kind = "raise" /\ result.severity = 10)

C7_NonZeroSeverityRaises ==
    (Completed /\ Correlated /\ StatusInCatalog /\ CatalogEntry[2] # 0)
        => (result.kind = "raise" /\ result.exc = "SolstisError" /\ result.value = NoReply)

C7_Witness ==
    /\ Completed /\ Correlated /\ StatusInCatalog
    /\ CatalogEntry[2] = 1
    /\ call.command_id = 6
    /\ result.kind = "raise"

\* C8: the error raised for a status of non-zero catalog severity carries
\* the catalog's message and the catalog's severity for that operation and
\* status (move_wave_t with status 2: "wavelength out of range", severity 2).
C8_ErrorCarriesCatalogEntry ==
    (Completed /\ Correlated /\ StatusInCatalog /\ CatalogEntry[2] # 0)
        => /\ result.kind = "raise"
           /\ result.message = CatalogEntry[1]
           /\ result.severity = CatalogEntry[2]

\* C9: the n-th allocation on a fresh client returns n mod 2^30: the counter
\* stays within 0 .. 2^30-1, the id handed to command() is the counter, and
\* an allocation never returns the id of the allocation before it.
C9_NthAllocation ==
    /\ [](/\ transmission_id_counter = allocs % (2^30)
          /\ transmission_id_counter \in 0 .. (2^30 - 1)
          /\ (call # NoCall => call.transmission_id = allocs % (2^30)))
    /\ [][allocs' # allocs =>
             /\ allocs' = allocs + 1
             /\ transmission_id_counter' # transmission_id_counter
             /\ transmission_id_counter' =
                  (IF transmission_id_counter = 2^30 - 1 THEN 0
                   ELSE transmission_id_counter + 1)]_vars

\* The counter has wrapped: allocation number 2^30 returned 0.
C9_Witness ==
    /\ allocs = 2^30
    /\ transmission_id_counter = 0
    /\ call.transmission_id = 0

\* C10 as stated: two requests outstanding at the same time never carry the
\* same transmission id, also when two callers run command() concurrently.
C10_OutstandingIdsDistinct ==
    \A c, d \in Callers :
        (c # d /\ cpc[c] = "outstanding" /\ cpc[d] = "outstanding") => cret[c] # cret[d]

\* C10 amended: as long as no allocation started while another was in
\* progress, two requests outstanding at the same time carry different ids.
C10_SerializedIdsDistinct ==
    ~interleaved => C10_OutstandingIdsDistinct

C10_Witness ==
    /\ ~interleaved
    /\ \A c \in Callers : cpc[c] = "outstanding"
    /\ cret[1] # cret[2]

\* The wrappers that take a percentage.
PercentWrappers ==
    {"tune_etalon", "tune_cavity", "fine_tune_cavity", "tune_resonator",
     "fine_tune_resonator", "beam_adjust_x", "beam_adjust_y"}

\* Nothing was sent and no transmission id was consumed by the last call.
RejectedLocally ==
    /\ result.kind = "raise"
    /\ ~call.sent /\ call.sends = 0
    /\ pc = "idle"
    /\ transmission_id_counter = call.counter_before

\* C11: a percentage outside [0,100] given to tune_etalon, tune_cavity,
\* fine_tune_cavity, tune_resonator, fine_tune_resonator, beam_adjust_x or
\* beam_adjust_y raises before any message is sent and leaves the
\* transmission-id counter unchanged.
C11_PercentRangeRejected ==
    (call.wrapper \in PercentWrappers /\ call.args[1] \notin 0..100)
        => (RejectedLocally /\ result.exc = "AssertionError")

C11_Witness ==
    /\ call.wrapper = "beam_adjust_x" /\ call.args[1] = 101
    /\ connection = "socket"
    /\ call.counter_before = 1
    /\ RejectedLocally

\* The wrappers whose first argument is a channel index or a scan type.
ChannelOrScanWrappers ==
    {"set_w_meter_channel", "gpio_output", "dac_ramping", "dac_ramping_poll",
     "digital_pot_output", "dac_output", "scan_stitch_initialise", "scan_stitch_op",
     "scan_stitch_status", "fast_scan_start", "fast_scan_poll", "fast_scan_stop",
     "fast_scan_stop_nr"}

\* C12: a channel index or scan type outside the bounds or variants declared
\* for it is rejected locally by every wrapper that takes one: no message is
\* sent and no transmission id is consumed.
C12_ChannelAndScanRejected ==
    (/\ call.wrapper \in ChannelOrScanWrappers
     /\ call.args[1] \notin wrapper_params(call.wrapper)[1].allowed)
        => RejectedLocally

\* C13: a command issued while the client has no connection raises
\* SolstisError and sends no message.
C13_NotConnectedRaises ==
    (/\ result.of = "command" /\ pc = "idle"
     /\ connection = "None"
     /\ call.handler # "" /\ call.kwargs_fit)
        => /\ result.kind = "raise"
           /\ result.exc = "SolstisError"
           /\ result.message = "Not connected to the server."
           /\ ~call.sent /\ call.sends = 0 /\ call.recvs = 0

\* A second command on a client without a connection.
C13_Witness ==
    /\ result.of = "command" /\ pc = "idle"
    /\ connection = "None"
    /\ call.command_id = 100 /\ call.kwargs_fit
    /\ call.counter_before = 1
    /\ result.exc = "SolstisError"

\* C14: after a receive timeout during command() the connection is
\* unusable: until connect() is called, no later command() waits for a reply
\* (nothing is sent) and every later command() ends with an error.
C14_TimeoutDisablesConnection ==
    timed_out => (pc = "idle" /\ (result.of = "command" => result.kind = "raise"))

\* C15: a correctly correlated reply whose parameters carry no status field
\* is classified as success and returned, for every command of the table.
C15_AbsentStatusIsSuccess ==
    (Completed /\ Correlated /\ call.reply.has_parameters /\ ~call.reply.has_status)
        => result = Returned("command", call.reply)

\* C16: status classification happens only in _check_response: a handler
\* returns every verified reply, whatever its status, and never raises on
\* the basis of the status.
C16_HandlersDoNotClassify ==
    (/\ Completed
     /\ verify_messsage(call.reply, handler_op_reply(call.handler),
                        call.transmission_id) = NoError)
        => handler_after_receive(call.handler, call.transmission_id, call.reply) = NoError

\* C17: one invocation of command() transmits at most one request and reads
\* at most one reply, whatever the outcome.
C17_NoRetries ==
    /\ call.sends <= 1
    /\ call.recvs <= 1
    /\ call.recvs <= call.sends
    /\ (call.sent <=> call.sends = 1)

\* A command that ended with a status error after one request and one reply.
C17_Witness ==
    /\ Completed /\ Correlated /\ StatusInCatalog
    /\ CatalogEntry[2] = 2
    /\ result.kind = "raise"
    /\ call.sends = 1 /\ call.recvs = 1

\* C18: the keys of the dispatch table are exactly the values of the
\* Commands enumeration: command() rejects an id with its assertion exactly
\* when the id is no value of Commands.
C18_TableCompleteness ==
    /\ CommandIds = Commands
    /\ (result.of = "command" /\ pc = "idle")
          => (result.exc = "AssertionError" <=> call.command_id \notin Commands)

C18_Witness ==
    /\ result.of = "command" /\ pc = "idle"
    /\ call.command_id = 51
    /\ call.sent
    /\ result.exc # "AssertionError"

\* C19: the keys of the status catalog are exactly the values of the
\* Commands enumeration: every command has a catalog entry, no entry lacks a
\* command, and every known reply op is looked up under a key of the catalog.
C19_CatalogCompleteness ==
    /\ CatalogKeys = Commands
    /\ \A value \in Commands : DOMAIN status_messages_severity(value) # {}
    /\ (Completed /\ has_command_op_reply(call.reply.op))
          => get_value_from_op_reply(call.reply.op) \in CatalogKeys

C19_Witness ==
    /\ Completed /\ Correlated
    /\ call.command_id = 101
    /\ get_value_from_op_reply(call.reply.op) = 101
    /\ result.kind = "return"

\* C20: every operation of the status catalog has at least one status of
\* severity 0; in particular the operation of the command in progress has one.
C20_CatalogSuccessPresence ==
    /\ \A op_index \in CatalogKeys :
          \E status \in DOMAIN status_messages_severity(op_index) :
              status_messages_severity(op_index)[status][2] = 0
    /\ call.command_id \in CatalogKeys
          => \E status \in DOMAIN status_messages_severity(call.command_id) :
                 status_messages_severity(call.command_id)[status][2] = 0

\* stop_move_wave_t, whose entry has a single status, answered with it.
C20_Witness ==
    /\ Completed /\ Correlated /\ StatusInCatalog
    /\ call.command_id = 7
    /\ CatalogEntry[2] = 0
    /\ result.kind = "return"

\* C21: decoding the text that send_command sends gives back the
\* transmission id (in its one-element list), the op and the parameters
\* that were given to send_command, and no "parameters" when params is None.
C21_RoundTrip ==
    wire.step = "decoded" =>
        LET message == dict_get(wire.decoded.items, "message")
        IN  /\ wire.decoded = send_command_message(wire.transmission_id, wire.op,
                                                  wire.params)
            /\ dict_get(message.items, "transmission_id")
                   = PyList(<<PyInt(wire.transmission_id)>>)
            /\ dict_get(message.items, "op") = PyStr(<<wire.op>>)
            /\ dict_get(message.items, "parameters")
                   = (IF wire.params = PyNone THEN KeyError ELSE wire.params)

\* A ten-digit id and a string parameter with a quote and a backslash.
C21_Witness ==
    /\ wire.step = "decoded"
    /\ wire.transmission_id = max_transmission_id
    /\ wire.op = "ping"
    /\ wire.params = PyDict(<<PyStr(<<"text_in">>), PyStr(AwkwardText)>>)
    /\ Len(wire.bytes) > Len(AwkwardText) + 2

\* C22: a command() call that omits a parameter its handler requires, or
\* whose command id is not in the table, raises without sending anything.
C22_LocalFailure ==
    (/\ result.of = "command" /\ pc = "idle"
     /\ \/ call.command_id \notin Commands
        \/ ~(handler_required(command_dispatch(call.command_id)) \subseteq call.kwargs))
        => /\ result.kind = "raise"
           /\ result.exc \in {"AssertionError", "TypeError"}
           /\ ~call.sent /\ call.sends = 0 /\ call.recvs = 0

\* set_wave_m called without its wavelength on a connected client.
C22_Witness ==
    /\ result.of = "command" /\ pc = "idle"
    /\ connection = "socket"
    /\ call.command_id = 1 /\ call.kwargs = {}
    /\ result.exc = "TypeError"
    /\ ~call.sent

\* C23: for the command in progress, the op its handler sends and the reply
\* op its handler accepts are the names the Commands member of its id gives,
\* and the reverse lookup of the accepted reply op gives back the id.
C23_HandlerOpsMatchCommands ==
    call.handler # ""
        => /\ handler_op(call.handler) = command_op(call.command_id)
           /\ handler_op_reply(call.handler) = command_op_reply(call.command_id)
           /\ has_command_op_reply(handler_op_reply(call.handler))
           /\ get_value_from_op_reply(handler_op_reply(call.handler)) = call.command_id

\* Every argument of the last wrapper call is within its declared range.
ArgsInRange ==
    \A i \in 1..Len(call.args) : call.args[i] \in wrapper_params(call.wrapper)[i].allowed

\* C24: a wrapper called with arguments inside the declared ranges on a
\* connected client sends exactly one request, with the op of its handler;
\* its keyword names bind to the handler and nothing is raised before the send.
C24_WrappersSendOneRequest ==
    (call.wrapper # "" /\ connection = "socket" /\ ArgsInRange)
        => /\ bind(command_dispatch(wrapper_command(call.wrapper)), wrapper_kw(call.wrapper))
           /\ call.sent /\ call.sends = 1
           /\ call.op = handler_op(command_dispatch(wrapper_command(call.wrapper)))

\* C25: the reply checks run in the order parse_fail, transmission id, reply
\* op, and the status is classified only when all three pass: a reply that
\* fails one of them ends command() with the error of the first check it
\* fails, whatever its status.
C25_ChecksInOrder ==
    Completed =>
       LET reply == call.reply
           expected == handler_op_reply(call.handler)
       IN  IF reply.op = "parse_fail"
           THEN result.message = "Mesage with ID " \o ToString(reply.transmission_id)
                                 \o " failed to parse." \o "\n\n" \o ToString(reply)
           ELSE IF reply.transmission_id # call.transmission_id
           THEN result.message = "Message with ID" \o ToString(reply.transmission_id)
                                 \o " did not match expected ID of: "
                                 \o ToString(call.transmission_id)
           ELSE IF reply.op # expected
           THEN result.message = "Message with ID" \o ToString(reply.transmission_id)
                                 \o "with operation command of '" \o reply.op
                                 \o "' did not match expected operation command of: "
                                 \o expected
           ELSE TRUE

\* A reply with a wrong id and a status of severity 2.
C25_Witness ==
    /\ Completed
    /\ call.reply.transmission_id # call.transmission_id
    /\ call.reply.op = handler_op_reply(call.handler)
    /\ StatusInCatalog /\ CatalogEntry[2] = 2
    /\ result.exc = "SolstisError"
    /\ result.message # CatalogEntry[1]

\* C26: every invocation of command() leaves the counter one step (modulo
\* the wrap) after the value it found, however the invocation ends.
C26_CounterAdvancesByOne ==
    (result.of = "command" \/ pc = "recv")
        => transmission_id_counter = (call.counter_before + 1) % (max_transmission_id + 1)

\* An unknown command id on the call that wraps the counter.
C26_Witness ==
    /\ result.of = "command" /\ pc = "idle"
    /\ call.command_id \notin Commands
    /\ result.exc = "AssertionError"
    /\ call.counter_before = max_transmission_id
    /\ transmission_id_counter = 0

\* C27: a reply to an earlier request whose receive timed out, read by a
\* later command, is rejected by the id check and never returned.
C27_StaleReplyRejected ==
    (Completed /\ call.stale)
        => /\ call.reply.transmission_id # call.transmission_id
           /\ result.kind = "raise"
           /\ result.exc = "SolstisError"
           /\ result.message = "Message with ID" \o ToString(call.reply.transmission_id)
                               \o " did not match expected ID of: "
                               \o ToString(call.transmission_id)

\* The same command issued again reads the late reply to its first issue.
C27_Witness ==
    /\ Completed /\ call.stale
    /\ call.command_id = 1
    /\ call.reply.op = handler_op_reply(call.handler)
    /\ call.after = "command" /\ call.after_failed
    /\ result.kind = "raise"

\* C28: connect() and disconnect() leave the transmission-id counter
\* unchanged, so the counter always equals the number of allocations made
\* since construction (modulo the wrap), reconnects or not.
C28_CounterSurvivesConnection ==
    /\ [](transmission_id_counter = allocs % (max_transmission_id + 1))
    /\ [][result'.of \in {"connect", "disconnect"}
             => transmission_id_counter' = transmission_id_counter]_vars

\* The first command after a connect() that followed one allocation gets id 2.
C28_Witness ==
    /\ call.after = "connect" /\ ~call.after_failed
    /\ call.counter_before = 1
    /\ call.sent /\ call.transmission_id = 2

\* C29: the connection appears only through connect() and disappears only
\* through disconnect() or a failed connect(); command(), however it ends,
\* leaves the connection as it was.
C29_NoImplicitReconnection ==
    [][/\ (connection = "None" /\ connection' = "socket")
              => (result'.of = "connect" /\ ~call_failed(result'))
       /\ (connection = "socket" /\ connection' = "None")
              => \/ result'.of = "disconnect"
                 \/ (result'.of = "connect" /\ call_failed(result'))
       /\ (calls' # calls \/ pc = "recv") => connection' = connection]_vars

\* command() ended with a receive timeout and the connection is still held.
C29_Witness ==
    /\ result.of = "command" /\ pc = "idle"
    /\ result.exc = "socket.timeout"
    /\ timed_out
    /\ connection = "socket"

\* C30: after a connect() that failed (timeout or any other exception) the
\* client holds no connection, a timeout is raised as TimeoutError, and the
\* next command raises the not-connected error without sending.
C30_FailedConnectLeavesNone ==
    /\ (result.of = "connect" /\ call_failed(result))
          => /\ connection = "None"
             /\ result.kind = "raise" => result.exc = "TimeoutError"
    /\ (call.after = "connect" /\ call.after_failed)
          => /\ ~call.sent /\ call.sends = 0 /\ pc = "idle"
             /\ call.kwargs_fit
                   => result = Raised("command",
                                      SolstisError("Not connected to the server.", 10))

\* A command right after a connect() that failed without a timeout.
C30_Witness ==
    /\ call.after = "connect" /\ call.after_failed
    /\ call.kwargs_fit
    /\ result.exc = "SolstisError"
    /\ connection = "None"


\* The keys of a dict, given its items.
dict_keys(items) == { items[i] : i \in { j \in 1..Len(items) : j % 2 = 1 } }

\* C32: the request that is sent carries the transmission id as a list of
\* one element and the op as given; it has a "parameters" key exactly when
\* params is not None, and a handler called without any parameter sends the
\* two keys "transmission_id" and "op" only.
C32_Envelope ==
    wire.step = "decoded" =>
        LET message == dict_get(wire.decoded.items, "message")
            id == dict_get(message.items, "transmission_id")
        IN  /\ dict_keys(wire.decoded.items) = {PyStr(<<"message">>)}
            /\ id.type = "list" /\ Len(id.items) = 1
            /\ id.items[1] = PyInt(wire.transmission_id)
            /\ dict_get(message.items, "op") = PyStr(<<wire.op>>)
            /\ (PyStr(<<"parameters">>) \in dict_keys(message.items))
                   <=> (wire.params # PyNone)
            /\ (wire.via = "handler" /\ wire.kwargs = {})
                   => dict_keys(message.items)
                          = {PyStr(<<"transmission_id">>), PyStr(<<"op">>)}

\* _read_all_adc called without report: no "parameters" in what is sent.
C32_Witness ==
    /\ wire.step = "decoded"
    /\ wire.via = "handler" /\ wire.kwargs = {}
    /\ wire.op = "read_all_adc"
    /\ wire.transmission_id = 10
    /\ dict_get(dict_get(wire.decoded.items, "message").items, "parameters") = KeyError


\* The reply as the instrument would have numbered it had the request
\* carried the first id a client allocates.
Renumbered(reply, transmission_id) ==
    [reply EXCEPT !.transmission_id =
        IF @ = transmission_id THEN allocate_transmission_id(0)
        ELSE OtherId(allocate_transmission_id(0))]

\* How command(command_id, **kwargs) ends on a client that has issued no
\* command before, with or without a connection, when reply is received.
first_command(command_id, kwargs, connected, reply) ==
    IF command_id \notin CommandIds
    THEN Raised("command", Exception("AssertionError",
                                     "Invalid command ID. " \o ToString(command_id)))
    ELSE IF ~bind(command_dispatch(command_id), kwargs)
    THEN Raised("command", Exception("TypeError", "arguments"))
    ELSE IF ~connected
    THEN Raised("command", send_command("None"))
    ELSE command_result(command_dispatch(command_id), allocate_transmission_id(0), reply)

\* What a caller sees of the end of a call, the text of the message aside.
Outcome(r) == <<r.kind, r.exc, r.severity, r.value # NoReply>>

\* C31: a command() call ends as the same call would end on a client that
\* has issued nothing before, given the same arguments, the same presence of
\* a connection and the same reply (numbered for the request): the same
\* return or exception, the reply itself when it returns, and the same
\* message unless the message quotes a transmission id.
C31_NoScanStateMachine ==
    (/\ result.of = "command" /\ pc = "idle"
     /\ call.wrapper = ""
     /\ call.sent => call.reply # NoReply)
        => LET first == first_command(call.command_id, call.kwargs,
                                      connection # "None",
                                      Renumbered(call.reply, call.transmission_id))
           IN  /\ Outcome(result) = Outcome(first)
               /\ result.kind = "return" => result.value = call.reply
               /\ (~call.sent \/ Correlated) => result.message = first.message

\* scan_stitch_op succeeds as the second command of a client, right after a
\* command that failed.
C31_Witness ==
    /\ result.of = "command" /\ pc = "idle"
    /\ call.command_id = 28 /\ call.counter_before = 1
    /\ call.after = "command" /\ call.after_failed
    /\ result.kind = "return"


\* C33: with one caller, response_buffer is empty whenever receive_response()
\* is entered and whenever it is left; when it returns, it returns the
\* message recv has just given it, and when it raises (timeout, undecodable
\* bytes) the buffer is as it was.
C33_BufferEmptyAroundReceive ==
    /\ [](response_buffer = <<>>)
    /\ [][(pc = "recv" /\ pc' = "idle")
            => /\ response_buffer' = response_buffer
               /\ call'.recvs = call.recvs + 1
               /\ IF result'.exc \in {"socket.timeout", "JSONDecodeError"}
                  THEN call'.response = NoReply
                  ELSE call'.response # NoReply /\ call'.response = call'.reply]_vars

\* The second receive_response() of a client returns the second reply, the
\* first one having been returned to the first command.
C33_Witness ==
    /\ Completed /\ call.recvs = 1
    /\ call.counter_before = 1 /\ call.after = "command" /\ ~call.after_failed
    /\ call.response = call.reply
    /\ call.reply.transmission_id = 2
    /\ response_buffer = <<>>


\* C35: disconnect() ends with connection = None and raises nothing; on a
\* client that holds a socket it closes it once, and on a client that holds
\* none it closes nothing and leaves the counter and the buffer as they
\* were, so that a second disconnect() changes nothing.
C35_DisconnectIdempotent ==
    /\ [](result.of = "disconnect"
            => /\ connection = "None"
               /\ result.kind = "return" /\ result.exc = ""
               /\ result.closed \in {0, 1})
    /\ [][result'.of = "disconnect"
            => /\ result'.closed = (IF connection = "socket" THEN 1 ELSE 0)
               /\ transmission_id_counter' = transmission_id_counter
               /\ response_buffer' = response_buffer]_vars

\* disconnect() on a client that holds no connection and has allocated an id.
C35_Witness ==
    /\ result.of = "disconnect" /\ result.closed = 0
    /\ connection = "None"
    /\ transmission_id_counter = 1


\* The attributes the claim C34 is about.
ClientAttributes == {"connection", "response_buffer", "_transmission_id_counter"}

\* C34: whatever the caller does with one instance (connect, disconnect,
\* commands that allocate ids, receive replies or fail) leaves the
\* connection, the response buffer and the transmission-id counter of the
\* other instance as they were, and turning to the other instance changes
\* no attribute of either.
C34_InstancesIndependent ==
    [][/\ (other.id # 0 /\ other'.id = other.id)
              => \A name \in ClientAttributes :
                     attribute(other.id, name)' = attribute(other.id, name)
       /\ (other.id # 0 /\ other'.id # other.id)
              => \A i \in {1, 2}, name \in ClientAttributes :
                     attribute(i, name)' = attribute(i, name)]_vars

\* The second instance has allocated its own first id and has been
\* disconnected, while the first is still connected with its counter at 1.
C34_Witness ==
    /\ other.id = 1
    /\ other.connection = "socket" /\ other.transmission_id_counter = 1
    /\ connection = "None" /\ transmission_id_counter = 1
    /\ result.of = "disconnect"

=============================================================================
